---------------------------- MODULE Spec2Model ----------------------------
(***************************************************************************)
(* A model of the tag-list pipeline of SEQ_TLS_AF_work:                    *)
(*   030_AssetsAttributesExtraction.py  parse_name_to_asset_attribute      *)
(*   010_TreeTagList.py                 load_af_templates (inheritance     *)
(*                                      resolution, priority order),       *)
(*                                      match_assets_to_templates,         *)
(*                                      build_af_import                    *)
(*   020_TemplateExtraction.py          core templates, coverage ranking,  *)
(*                                      similarity of asset types          *)
(* Text is a sequence of one-character strings, so that the code's         *)
(* character-level operations (slicing, the token pattern, the 'C' -> 'T'  *)
(* substitution, path joining with "\") are modelled as they are computed. *)
(* Each component has its own specification; the variables of the other    *)
(* components stay at their idle values in it.                             *)
(***************************************************************************)
EXTENDS Integers, Sequences, FiniteSets, TLC

VARIABLES
    pc,                     \* position of the run
    name,                   \* decomposer: the identifier being parsed
    tokens,                 \* decomposer: the tokens of the suffix
    asset_parts,            \* decomposer: tokens routed to the asset
    attr_parts,             \* decomposer: tokens routed to the attribute
    parsed,                 \* decomposer: the returned (asset, attribute)
    element_templates,      \* loader: the ElementTemplate rows (Name, BaseTemplate)
    attribute_templates,    \* loader: the AttributeTemplate rows (Parent, Name, AttributeConfigString)
    templates,              \* loader: the templates dict, keyed by template name
    order,                  \* loader: the iteration order of the templates dict
    todo,                   \* loader: the names the resolution loop has still to resolve
    stack,                  \* loader: the call stack of get_all_attributes
    asset_attributes,       \* matcher: asset -> set of attribute names
    asset_order,            \* matcher: the iteration order of asset_attributes
    asset_template_mapping, \* matcher: asset -> template name
    mt,                     \* matcher: index in order of the template being tried
    ma,                     \* matcher: index in asset_order of the asset being tested
    previous_mapping,       \* matcher: what an earlier call on the same arguments returned
    dedup_df,               \* assembler: the deduplicated table (after line 228)
    df,                     \* assembler: the working table
    scada_asset_mapping,    \* assembler: asset -> linked system name
    rows,                   \* assembler: the output sequence of nodes
    sensor_assets,          \* assembler: the sensor dict, asset -> row, in insertion order
    assets_to_process,      \* assembler: the (kind, row) list of the asset loop
    ap,                     \* assembler: index in assets_to_process of the next asset
    tls_df,                 \* assembler: the rows of the tag sheet that have a P&ID Asset
    tag_df,                 \* discoverer: the tag table read by 020_TemplateExtraction.py
    df_filtered,            \* discoverer: the rows that take part in discovery
    grouped,                \* discoverer: (asset type, number of its assets), most assets first
    core_templates,         \* discoverer: asset type -> attributes common to all its assets
    coverage,               \* discoverer: asset type -> attributes above the threshold, ranked
    ci,                     \* discoverer: index in grouped of the coverage loop
    filtered_attr_sets,     \* discoverer: asset type -> its non-empty set of ranked attributes
    similar,                \* discoverer: the reported pairs of asset types
    assets_with_all_per_type, \* discoverer: asset type -> number of assets with every ranked attribute
    templates_json,         \* discoverer: the exported template specifications
    tls_sheets,             \* reader: the sheets of the tag workbook, in workbook order
    tls_columns,            \* reader: the columns of the sheet taken as tls_df
    error                   \* reader: the ValueError raised, if any

decVars == <<name, tokens, asset_parts, attr_parts, parsed>>
loadVars == <<element_templates, attribute_templates, templates, order, todo, stack>>
matchVars ==
    <<asset_attributes, asset_order, asset_template_mapping, mt, ma, previous_mapping>>
hierVars ==
    <<tls_df, dedup_df, df, scada_asset_mapping, rows, sensor_assets, assets_to_process, ap>>
discVars ==
    <<tag_df, df_filtered, grouped, core_templates, coverage, ci, filtered_attr_sets, similar,
      assets_with_all_per_type, templates_json>>
readVars == <<tls_sheets, tls_columns, error>>
vars == <<pc, decVars, loadVars, matchVars, hierVars, discVars, readVars>>
notDecVars == <<loadVars, matchVars, hierVars, discVars, readVars>>
notLoadVars == <<decVars, matchVars, hierVars, discVars, readVars>>
notMatchVars ==
    <<decVars, element_templates, attribute_templates, todo, stack, hierVars, discVars,
      readVars>>
notHierVars == <<decVars, loadVars, matchVars, discVars, readVars>>
notDiscVars == <<decVars, loadVars, matchVars, hierVars, readVars>>
notReadVars == <<decVars, loadVars, matchVars, hierVars, discVars>>

(***************************************************************************)
(* Text helpers                                                            *)
(***************************************************************************)
SeqsUpTo(S, n) == UNION {[1..k -> S] : k \in 0..n}

RECURSIVE Join(_)
\* "".join(parts)
Join(parts) == IF parts = <<>> THEN <<>> ELSE Head(parts) \o Join(Tail(parts))

Drop(s, n) == SubSeq(s, n + 1, Len(s))

(***************************************************************************)
(* 030_AssetsAttributesExtraction.py: parse_name_to_asset_attribute        *)
(***************************************************************************)
PrefixLength == 4
MaxCoreLen == 7

Sep == "_"
Digits == {"7"}
CoreAlphabet == {"_", "7", "A"}
PrefixAlphabet == {"P", "_"}

\* The identifiers parsed: any prefix text of up to PrefixLength characters,
\* followed (when the prefix is complete) by any suffix of up to MaxCoreLen.
Identifiers ==
    {p \o s : p \in [1..PrefixLength -> PrefixAlphabet], s \in SeqsUpTo(CoreAlphabet, MaxCoreLen)}
    \cup SeqsUpTo(PrefixAlphabet, PrefixLength - 1)

RECURSIVE RunEnd(_, _, _)
\* The last index of the maximal run starting at i of separators (sep = TRUE)
\* or of non-separators (sep = FALSE); i - 1 when the run is empty.
RunEnd(s, i, sep) ==
    IF i <= Len(s) /\ ((s[i] = Sep) = sep) THEN RunEnd(s, i + 1, sep) ELSE i - 1

RECURSIVE FindTokens(_, _)
\* re.findall(r'_+[^_]+|[^_]+', core) scanning from index i: a token is a
\* separator run followed by a non-separator run, or a non-separator run; a
\* separator run that reaches the end of the text matches nothing.
FindTokens(s, i) ==
    IF i > Len(s) THEN <<>>
    ELSE IF s[i] # Sep
         THEN LET j == RunEnd(s, i, FALSE)
              IN  <<SubSeq(s, i, j)>> \o FindTokens(s, j + 1)
         ELSE LET u == RunEnd(s, i, TRUE)
              IN  IF u = Len(s) THEN <<>>
                  ELSE LET j == RunEnd(s, u + 1, FALSE)
                       IN  <<SubSeq(s, i, j)>> \o FindTokens(s, j + 1)

\* t.lstrip('_')
LStripSep(t) == Drop(t, RunEnd(t, 1, TRUE))

\* A test that passes a token with some digit in it.
has_a_digit(token) == \E i \in 1..Len(token) : token[i] \in Digits

\* is_all_digits: bool(token) and token.isdigit()
is_all_digits(token) == token # <<>> /\ \A i \in 1..Len(token) : token[i] \in Digits

RECURSIVE RouteMiddle(_, _)
\* The loop over the middle tokens: digits go to the asset (toAsset = TRUE
\* selects those), everything else to the attribute.
RouteMiddle(middle, toAsset) ==
    IF middle = <<>> THEN <<>>
    ELSE LET t == Head(middle)
         IN  (IF is_all_digits(LStripSep(t)) = toAsset THEN <<t>> ELSE <<>>)
             \o RouteMiddle(Tail(middle), toAsset)

AssetParts(toks) == <<toks[1]>> \o RouteMiddle(SubSeq(toks, 2, Len(toks) - 1), TRUE)

\* A routing that keeps a lone token out of the attribute.
AttrPartsLoneTokenToAsset(toks) ==
    RouteMiddle(SubSeq(toks, 2, Len(toks) - 1), FALSE)
    \o (IF Len(toks) = 1 THEN <<>> ELSE <<toks[Len(toks)]>>)

AttrParts(toks) == RouteMiddle(SubSeq(toks, 2, Len(toks) - 1), FALSE) \o <<toks[Len(toks)]>>

NotParsed == [asset |-> <<"?">>, attribute |-> <<"?">>]

\* A short identifier returned whole as the asset.
ParseShortAsAsset ==
    /\ pc = "parse"
    /\ Len(name) < PrefixLength
    /\ parsed' = [asset |-> name, attribute |-> <<>>]
    /\ pc' = "parsed"
    /\ UNCHANGED <<name, tokens, asset_parts, attr_parts, notDecVars>>

\* len(name) < 4: return "", ""
ParseShort ==
    /\ pc = "parse"
    /\ Len(name) < PrefixLength
    /\ parsed' = [asset |-> <<>>, attribute |-> <<>>]
    /\ pc' = "parsed"
    /\ UNCHANGED <<name, tokens, asset_parts, attr_parts, notDecVars>>

\* no token in the suffix: return "", ""
ParseNoToken ==
    /\ pc = "parse"
    /\ Len(name) >= PrefixLength
    /\ FindTokens(Drop(name, PrefixLength), 1) = <<>>
    /\ parsed' = [asset |-> <<>>, attribute |-> <<>>]
    /\ pc' = "parsed"
    /\ UNCHANGED <<name, tokens, asset_parts, attr_parts, notDecVars>>

ParseTokens ==
    /\ pc = "parse"
    /\ Len(name) >= PrefixLength
    /\ LET toks == FindTokens(Drop(name, PrefixLength), 1)
       IN  /\ toks # <<>>
           /\ tokens' = toks
           /\ asset_parts' = AssetParts(toks)
           /\ attr_parts' = AttrParts(toks)
           /\ parsed' = [asset |-> Join(AssetParts(toks)), attribute |-> Join(AttrParts(toks))]
    /\ pc' = "parsed"
    /\ UNCHANGED <<name, notDecVars>>

(***************************************************************************)
(* 010_TreeTagList.py: load_af_templates                                   *)
(***************************************************************************)
\* The fixed delimiter "%@|Site Code%_%@|SCADA Asset Name%" is one symbol of a
\* config string; NaN is the value of an empty spreadsheet cell.
Delim == "%D%"
NaN == <<"NaN">>

Lower(c) == CASE c = "A" -> "a" [] c = "B" -> "b" [] c = "C" -> "c" [] c = "N" -> "n" [] OTHER -> c

LowerText(s) == [i \in 1..Len(s) |-> Lower(s[i])]

RECURSIVE LStrip(_)
LStrip(s) == IF s # <<>> /\ Head(s) = " " THEN LStrip(Tail(s)) ELSE s

RECURSIVE RStrip(_)
RStrip(s) == IF s # <<>> /\ s[Len(s)] = " " THEN RStrip(SubSeq(s, 1, Len(s) - 1)) ELSE s

\* str.strip()
Strip(s) == RStrip(LStrip(s))

RECURSIVE IndexOf(_, _, _)
\* The first index >= i of symbol c in s, or Len(s) + 1.
IndexOf(s, c, i) == IF i > Len(s) \/ s[i] = c THEN i ELSE IndexOf(s, c, i + 1)

\* Lines 41-49: the text after the first delimiter (up to the next one),
\* lower-cased and stripped; empty for NaN and when the delimiter is absent.
TagAttribute(attr_config) ==
    IF attr_config = NaN THEN <<>>
    ELSE LET d == IndexOf(attr_config, Delim, 1)
         IN  IF d > Len(attr_config) THEN <<>>
             ELSE LET e == IndexOf(attr_config, Delim, d + 1)
                  IN  Strip(LowerText(SubSeq(attr_config, d + 1, e - 1)))

\* Lines 51-55: the descriptor of one attribute row.
Descriptor(attr_row) ==
    [name |-> attr_row.Name,
     tag_attribute |-> TagAttribute(attr_row.AttributeConfigString),
     config_string |-> attr_row.AttributeConfigString]

RECURSIVE DirectAttributes(_, _)
\* Lines 35-55: the descriptors of the rows whose Parent is template_name, in
\* row order.
DirectAttributes(attr_rows, template_name) ==
    IF attr_rows = <<>> THEN <<>>
    ELSE (IF Head(attr_rows).Parent = template_name THEN <<Descriptor(Head(attr_rows))>> ELSE <<>>)
         \o DirectAttributes(Tail(attr_rows), template_name)

\* Lines 30-62: the first pass builds the templates dict from the rows.
FirstPassTemplates(elem_rows, attr_rows) ==
    [n \in {elem_rows[i].Name : i \in 1..Len(elem_rows)} |->
        LET row == elem_rows[CHOOSE i \in 1..Len(elem_rows) :
                        /\ elem_rows[i].Name = n
                        /\ \A j \in (i + 1)..Len(elem_rows) : elem_rows[j].Name # n]
        IN  [base_template |-> row.BaseTemplate,
             direct_attributes |-> DirectAttributes(attr_rows, n),
             all_attributes |-> <<>>,
             attribute_count |-> 0]]

RECURSIVE FirstSeen(_, _)
\* Keys of a dict in insertion order: each name at its first occurrence.
FirstSeen(names, seen) ==
    IF names = <<>> THEN <<>>
    ELSE IF Head(names) \in seen THEN FirstSeen(Tail(names), seen)
         ELSE <<Head(names)>> \o FirstSeen(Tail(names), seen \cup {Head(names)})

\* Line 70 with the membership test dropped.
AlreadyVisitedNever(template_name, visited) == FALSE

\* Line 70: template_name in visited
AlreadyVisited(template_name, visited) == template_name \in visited

\* Line 83: base_template and base_template in templates
HasBase(tpls, template_name) ==
    /\ tpls[template_name].base_template # ""
    /\ tpls[template_name].base_template \in DOMAIN tpls

AttrNames(attrs) == {attrs[i].name : i \in 1..Len(attrs)}

RECURSIVE KeepNew(_, _)
\* Lines 88-90: the inherited descriptors whose name is not in existing_names.
KeepNew(inherited_attrs, existing_names) ==
    IF inherited_attrs = <<>> THEN <<>>
    ELSE (IF Head(inherited_attrs).name \notin existing_names
          THEN <<Head(inherited_attrs)>> ELSE <<>>)
         \o KeepNew(Tail(inherited_attrs), existing_names)

\* A merge in which the inherited descriptors come first and win.
MergeInheritedFirst(all_attrs, inherited_attrs) ==
    inherited_attrs \o KeepNew(all_attrs, AttrNames(inherited_attrs))

\* A merge that takes nothing from the base.
MergeKeepsDirectOnly(all_attrs, inherited_attrs) == all_attrs

\* Lines 86-90: direct attributes override inherited ones with the same name.
MergeInherited(all_attrs, inherited_attrs) ==
    all_attrs \o KeepNew(inherited_attrs, AttrNames(all_attrs))

Top == stack[Len(stack)]

SetTop(f) == [stack EXCEPT ![Len(stack)] = f]

\* Lines 30-62.
FirstPass ==
    /\ pc = "load"
    /\ templates' = FirstPassTemplates(element_templates, attribute_templates)
    /\ order' = FirstSeen([i \in 1..Len(element_templates) |-> element_templates[i].Name], {})
    /\ todo' = order'
    /\ pc' = "resolve"
    /\ UNCHANGED <<element_templates, attribute_templates, stack, notLoadVars>>

\* Lines 95-96: the loop calls get_all_attributes(template_name).
StartWalk ==
    /\ pc = "resolve"
    /\ stack = <<>>
    /\ todo # <<>>
    /\ stack' = <<[name |-> Head(todo), visited |-> {}, all_attrs |-> <<>>, at |-> "enter"]>>
    /\ UNCHANGED <<pc, element_templates, attribute_templates, templates, order, todo, notLoadVars>>

\* Lines 70-71: the name was visited in this walk: return [].
EnterRevisit ==
    /\ pc = "resolve"
    /\ stack # <<>>
    /\ Top.at = "enter"
    /\ AlreadyVisited(Top.name, Top.visited)
    /\ stack' = SetTop([Top EXCEPT !.at = "return", !.all_attrs = <<>>])
    /\ UNCHANGED <<pc, element_templates, attribute_templates, templates, order, todo, notLoadVars>>

\* Lines 73-84: a first visit of a template with a known base: the recursive
\* call, with a copy of visited.
EnterCall ==
    /\ pc = "resolve"
    /\ stack # <<>>
    /\ Top.at = "enter"
    /\ ~AlreadyVisited(Top.name, Top.visited)
    /\ Top.name \in DOMAIN templates
    /\ HasBase(templates, Top.name)
    /\ LET v == Top.visited \cup {Top.name}
       IN  stack' = Append(
               SetTop([Top EXCEPT !.visited = v,
                                  !.all_attrs = templates[Top.name].direct_attributes,
                                  !.at = "call"]),
               [name |-> templates[Top.name].base_template, visited |-> v,
                all_attrs |-> <<>>, at |-> "enter"])
    /\ UNCHANGED <<pc, element_templates, attribute_templates, templates, order, todo, notLoadVars>>

\* Lines 73-79, 92: a first visit of a template with no known base (or of a
\* name that is no template): return the direct attributes (or []).
EnterLeaf ==
    /\ pc = "resolve"
    /\ stack # <<>>
    /\ Top.at = "enter"
    /\ ~AlreadyVisited(Top.name, Top.visited)
    /\ Top.name \in DOMAIN templates => ~HasBase(templates, Top.name)
    /\ stack' = SetTop([Top EXCEPT
            !.visited = Top.visited \cup {Top.name},
            !.all_attrs = IF Top.name \in DOMAIN templates
                          THEN templates[Top.name].direct_attributes ELSE <<>>,
            !.at = "return"])
    /\ UNCHANGED <<pc, element_templates, attribute_templates, templates, order, todo, notLoadVars>>

\* Lines 84-92: the recursive call returns; the caller merges and returns.
ReturnToCaller ==
    /\ pc = "resolve"
    /\ Len(stack) >= 2
    /\ Top.at = "return"
    /\ LET caller == stack[Len(stack) - 1]
       IN  stack' = [SubSeq(stack, 1, Len(stack) - 1) EXCEPT ![Len(stack) - 1] =
                        [caller EXCEPT !.all_attrs = MergeInherited(caller.all_attrs, Top.all_attrs),
                                       !.at = "return"]]
    /\ UNCHANGED <<pc, element_templates, attribute_templates, templates, order, todo, notLoadVars>>

\* Lines 96-98: the outermost call returns to the loop.
FinishWalk ==
    /\ pc = "resolve"
    /\ Len(stack) = 1
    /\ Top.at = "return"
    /\ templates' = [templates EXCEPT ![Top.name] =
                        [@ EXCEPT !.all_attributes = Top.all_attrs,
                                  !.attribute_count = Len(Top.all_attrs)]]
    /\ todo' = Tail(todo)
    /\ stack' = <<>>
    /\ UNCHANGED <<pc, element_templates, attribute_templates, order, notLoadVars>>

RemoveAt(s, i) == SubSeq(s, 1, i - 1) \o SubSeq(s, i + 1, Len(s))

\* Line 139: the non-empty tag attributes of the resolved attributes.
RequiredAttributes(template_info) ==
    {template_info.all_attributes[i].tag_attribute : i \in 1..Len(template_info.all_attributes)}
        \ {<<>>}

RECURSIVE SortedByRequired(_, _)
\* A sort by the number of required (matchable) attributes, descending.
SortedByRequired(tpls, names) ==
    IF names = <<>> THEN <<>>
    ELSE LET n(k) == Cardinality(RequiredAttributes(tpls[names[k]]))
             i == CHOOSE k \in 1..Len(names) :
                    /\ \A l \in 1..Len(names) : n(l) <= n(k)
                    /\ \A l \in 1..(k - 1) : n(l) < n(k)
         IN  <<names[i]>> \o SortedByRequired(tpls, RemoveAt(names, i))

RECURSIVE MaxCount(_, _)
MaxCount(tpls, names) ==
    IF names = <<>> THEN 0
    ELSE LET m == MaxCount(tpls, Tail(names))
             c == tpls[Head(names)].attribute_count
         IN  IF c > m THEN c ELSE m

\* The position of a template name in string order.
NameRank(n) == CASE n = "T1" -> 1 [] n = "T2" -> 2 [] n = "T3" -> 3 [] OTHER -> 0

RECURSIVE SortedByCountThenName(_, _)
\* A sort by attribute_count descending that breaks ties by name.
SortedByCountThenName(tpls, names) ==
    IF names = <<>> THEN <<>>
    ELSE LET m == MaxCount(tpls, names)
             best == {i \in 1..Len(names) : tpls[names[i]].attribute_count = m}
             i == CHOOSE k \in best : \A l \in best : NameRank(names[k]) <= NameRank(names[l])
         IN  <<names[i]>> \o SortedByCountThenName(tpls, RemoveAt(names, i))

RECURSIVE SortedByCount(_, _)
\* Line 101: sorted(templates.items(), key=attribute_count, reverse=True).
\* The sort is stable: items with an equal key keep their dict order.
SortedByCount(tpls, names) ==
    IF names = <<>> THEN <<>>
    ELSE LET m == MaxCount(tpls, names)
             i == CHOOSE k \in 1..Len(names) :
                    /\ tpls[names[k]].attribute_count = m
                    /\ \A l \in 1..(k - 1) : tpls[names[l]].attribute_count # m
         IN  <<names[i]>> \o SortedByCount(tpls, RemoveAt(names, i))

\* Lines 100-103.
SortTemplates ==
    /\ pc = "resolve"
    /\ stack = <<>>
    /\ todo = <<>>
    /\ order' = SortedByCount(templates, order)
    /\ pc' = "sorted"
    /\ UNCHANGED <<element_templates, attribute_templates, templates, todo, stack, notLoadVars>>

(***************************************************************************)
(* 010_TreeTagList.py: match_assets_to_templates                           *)
(***************************************************************************)
\* Lines 148-149 without the test that the asset is not matched yet.
MatchesIgnoringEarlier(mapping, asset_name, required_attributes, asset_attrs) ==
    required_attributes \subseteq asset_attrs

\* No earlier call has returned.
NotRun == [a \in {"?"} |-> "?"]

\* Lines 148-149, were a second call to find the assets used up by the first.
MatchesOnFirstCallOnly(mapping, asset_name, required_attributes, asset_attrs) ==
    /\ previous_mapping = NotRun
    /\ asset_name \notin DOMAIN mapping
    /\ required_attributes \subseteq asset_attrs

\* Lines 148-149, with one required attribute on the asset being enough.
MatchesSomeRequired(mapping, asset_name, required_attributes, asset_attrs) ==
    /\ asset_name \notin DOMAIN mapping
    /\ required_attributes \cap asset_attrs # {}

\* Lines 148-149: the asset is not matched yet and has every required attribute.
Matches(mapping, asset_name, required_attributes, asset_attrs) ==
    /\ asset_name \notin DOMAIN mapping
    /\ required_attributes \subseteq asset_attrs

\* Lines 135-138: the loop over the sorted templates starts.
MatchStart ==
    /\ pc = "sorted"
    /\ asset_template_mapping' = <<>>
    /\ mt' = 1
    /\ ma' = 1
    /\ pc' = "match"
    /\ UNCHANGED <<previous_mapping, asset_attributes, asset_order, templates, order,
                   notMatchVars>>

\* Lines 139-143: a template with no required attribute is skipped.
MatchSkipTemplate ==
    /\ pc = "match"
    /\ mt <= Len(order)
    /\ RequiredAttributes(templates[order[mt]]) = {}
    /\ mt' = mt + 1
    /\ UNCHANGED <<pc, previous_mapping, asset_attributes, asset_order, asset_template_mapping, ma,
                   templates, order, notMatchVars>>

\* Lines 147-151: one asset is tested against the template being tried.
MatchAsset ==
    /\ pc = "match"
    /\ mt <= Len(order)
    /\ RequiredAttributes(templates[order[mt]]) # {}
    /\ ma <= Len(asset_order)
    /\ LET asset_name == asset_order[ma]
       IN  asset_template_mapping' =
               IF Matches(asset_template_mapping, asset_name,
                          RequiredAttributes(templates[order[mt]]), asset_attributes[asset_name])
               THEN [a \in DOMAIN asset_template_mapping \cup {asset_name} |->
                        IF a = asset_name THEN order[mt] ELSE asset_template_mapping[a]]
               ELSE asset_template_mapping
    /\ ma' = ma + 1
    /\ UNCHANGED <<pc, previous_mapping, asset_attributes, asset_order, mt, templates, order, notMatchVars>>

\* Lines 147, 153: every asset was tested; the next template is tried.
MatchNextTemplate ==
    /\ pc = "match"
    /\ mt <= Len(order)
    /\ RequiredAttributes(templates[order[mt]]) # {}
    /\ ma > Len(asset_order)
    /\ mt' = mt + 1
    /\ ma' = 1
    /\ UNCHANGED <<pc, previous_mapping, asset_attributes, asset_order, asset_template_mapping,
                   templates, order, notMatchVars>>

\* Line 138: the loop over the templates ends.
MatchDone ==
    /\ pc = "match"
    /\ mt > Len(order)
    /\ pc' = "matched"
    /\ UNCHANGED <<matchVars, templates, order, notMatchVars>>


\* match_assets_to_templates is called again with the arguments of the call
\* that has returned: line 135 starts from an empty mapping again.
MatchAgain ==
    /\ pc = "matched"
    /\ previous_mapping = NotRun
    /\ previous_mapping' = asset_template_mapping
    /\ pc' = "sorted"
    /\ UNCHANGED <<asset_attributes, asset_order, asset_template_mapping, mt, ma,
                   templates, order, notMatchVars>>
(***************************************************************************)
(* 010_TreeTagList.py: build_af_import                                     *)
(***************************************************************************)
TemplatesExtractProvided == 1
Level1Name == <<"R">>
SensorTemplate == "TLS.Analog.Sensor.001"
ControllerTemplate == "TLS.PID.Controller.001"
NA == <<"<NA>">>
PathSep == <<"\\">>
NanText == <<"n", "a", "n">>
None == <<>>

\* Lines 245-261: add_row appends an Element node; the description, when
\* there is one, is joined to the name with " - ".
ElementRow(parent, nm, description, template) ==
    [Parent |-> parent,
     Name |-> IF description # <<>> THEN nm \o <<" ", "-", " ">> \o description ELSE nm,
     ObjectType |-> "Element",
     Description |-> description,
     Template |-> template,
     Value |-> <<>>]

\* Lines 263-275: add_attribute_row appends an Attribute node.
AttributeRow(parent_element, attribute_name, attribute_value) ==
    [Parent |-> parent_element,
     Name |-> attribute_name,
     ObjectType |-> "Attribute",
     Description |-> <<>>,
     Template |-> "",
     Value |-> attribute_value]

\* Lines 282, 290: not str(v).strip() or str(v).lower() == "nan"
IsBlankLevel(v) == Strip(v) = <<>> \/ LowerText(v) = NanText

\* Lines 360, 361: v and v.lower() != "nan" (and v.strip())
HasLevel(v) == v # <<>> /\ LowerText(v) # NanText /\ Strip(v) # <<>>

RECURSIVE Unique(_, _)
\* Series.unique(): the values in order of first appearance.
Unique(values, seen) ==
    IF values = <<>> THEN <<>>
    ELSE IF Head(values) \in seen THEN Unique(Tail(values), seen)
         ELSE <<Head(values)>> \o Unique(Tail(values), seen \cup {Head(values)})

Column(table, col) == [i \in 1..Len(table) |-> table[i][col]]

\* Lines 281-284: one node per distinct Level 2 value that is not blank.
Level2Rows(table) ==
    LET l2s == SelectSeq(Unique(Column(table, "Level2"), {}), LAMBDA v : ~IsBlankLevel(v))
    IN  [i \in 1..Len(l2s) |-> ElementRow(Level1Name, l2s[i], <<>>, "")]

RECURSIVE Level3Rows(_, _)
\* Lines 287-292: for each Level 2 group (blank ones included), one node per
\* distinct Level 3 value that is not blank, under level1_name \ Level 2.
Level3Rows(table, groups) ==
    IF groups = <<>> THEN <<>>
    ELSE LET l2_val == Head(groups)
             grp == SelectSeq(table, LAMBDA r : r.Level2 = l2_val)
             l3s == SelectSeq(Unique(Column(grp, "Level3"), {}), LAMBDA v : ~IsBlankLevel(v))
         IN  [i \in 1..Len(l3s) |->
                 ElementRow(Level1Name \o PathSep \o l2_val, l3s[i], <<>>, "")]
             \o Level3Rows(table, Tail(groups))

\* Lines 277-292: the root, the Level 2 nodes, the Level 3 nodes.
LevelRows(table) ==
    <<ElementRow(NA, Level1Name, <<>>, "")>>
    \o Level2Rows(table)
    \o Level3Rows(table, Unique(Column(table, "Level2"), {}))

\* Line 156 and lines 231-241: the Template column, and with templates loaded
\* only the rows matched to a template.
WithTemplates(table, tpls, mapping) ==
    LET tagged == [i \in 1..Len(table) |->
                      [Level2 |-> table[i].Level2, Level3 |-> table[i].Level3,
                       PID_Asset |-> table[i].PID_Asset, AssetName |-> table[i].AssetName,
                       Template |-> IF TemplatesExtractProvided = 1 /\ tpls # <<>>
                                       /\ table[i].PID_Asset \in DOMAIN mapping
                                    THEN mapping[table[i].PID_Asset] ELSE ""]]
    IN  IF TemplatesExtractProvided = 1 /\ tpls # <<>>
        THEN SelectSeq(tagged, LAMBDA r : r.Template # "")
        ELSE tagged

DictKeys(d) == {d[i].key : i \in 1..Len(d)}

DictGet(d, k) == d[CHOOSE i \in 1..Len(d) : d[i].key = k].value

\* d[k] = v on a dict kept as its list of items in insertion order.
DictSet(d, k, v) ==
    IF k \in DictKeys(d)
    THEN [i \in 1..Len(d) |-> IF d[i].key = k THEN [key |-> k, value |-> v] ELSE d[i]]
    ELSE Append(d, [key |-> k, value |-> v])

RECURSIVE SensorAssets(_, _)
\* Lines 302-307: sensor_assets[pid_asset] = row for the sensor-class rows.
SensorAssets(table, d) ==
    IF table = <<>> THEN d
    ELSE SensorAssets(Tail(table),
                      IF Head(table).Template = SensorTemplate
                      THEN DictSet(d, Head(table).PID_Asset, Head(table)) ELSE d)

Tagged(kind, list) == [i \in 1..Len(list) |-> [kind |-> kind, row |-> list[i]]]

\* Lines 296-314, 337-349: sensors first, then regular assets, then
\* controllers.
AssetsToProcess(table, tpls) ==
    IF TemplatesExtractProvided = 1 /\ tpls # <<>>
    THEN LET sensors == SensorAssets(table, <<>>)
         IN  Tagged("sensor", [i \in 1..Len(sensors) |-> sensors[i].value])
             \o Tagged("regular", SelectSeq(table, LAMBDA r :
                           r.Template # SensorTemplate /\ r.Template # ControllerTemplate))
             \o Tagged("controller", SelectSeq(table, LAMBDA r : r.Template = ControllerTemplate))
    ELSE Tagged("regular", table)

\* Line 325: controller_name[:i] + 'T' + controller_name[i+1:]
Substituted(controller_name, i) == [controller_name EXCEPT ![i] = "T"]

\* Lines 316-328 with the positions tried from the right.
find_rightmost_sensor(controller_name, sensors) ==
    LET hits == {i \in 1..Len(controller_name) :
                    /\ controller_name[i] = "C"
                    /\ Substituted(controller_name, i) \in DictKeys(sensors)}
    IN  IF Len(controller_name) >= 3 /\ hits # {}
        THEN Substituted(controller_name, CHOOSE i \in hits : \A j \in hits : i >= j)
        ELSE None

\* Lines 316-328: the sensor named like the controller with one 'C' replaced
\* by 'T', trying the positions from the left; None when there is none or
\* the name has fewer than 3 characters.
find_corresponding_sensor(controller_name, sensors) ==
    LET hits == {i \in 1..Len(controller_name) :
                    /\ controller_name[i] = "C"
                    /\ Substituted(controller_name, i) \in DictKeys(sensors)}
    IN  IF Len(controller_name) >= 3 /\ hits # {}
        THEN Substituted(controller_name, CHOOSE i \in hits : \A j \in hits : i <= j)
        ELSE None

\* Lines 330-334.
get_asset_display_name(pid_asset, asset_name) ==
    IF asset_name # <<>> THEN pid_asset \o <<" ", "-", " ">> \o asset_name ELSE pid_asset

\* Lines 359-362: the level-based parent path of a row.
DefaultParentPath(row) ==
    LET p2 == IF HasLevel(row.Level2) THEN Level1Name \o PathSep \o row.Level2 ELSE Level1Name
    IN  IF HasLevel(row.Level3) THEN p2 \o PathSep \o row.Level3 ELSE p2

\* Lines 359-373: the parent path of an asset node; a controller with a
\* corresponding sensor gets the sensor's display name appended to its own
\* level-based path.
ParentPath(kind, row, sensors) ==
    LET corresponding_sensor == find_corresponding_sensor(row.PID_Asset, sensors)
    IN  IF kind = "controller" /\ TemplatesExtractProvided = 1 /\ corresponding_sensor # None
        THEN DefaultParentPath(row) \o PathSep
             \o get_asset_display_name(corresponding_sensor,
                                       DictGet(sensors, corresponding_sensor).AssetName)
        ELSE DefaultParentPath(row)

\* The asset loop with the attribute row placed under the element's parent.
AssetRowsAttributeUnderParent(kind, row, sensors, scada) ==
    LET parent_path == ParentPath(kind, row, sensors)
    IN  <<ElementRow(parent_path, row.PID_Asset, row.AssetName, row.Template)>>
        \o (IF row.Template # "" /\ TemplatesExtractProvided = 1
            THEN <<AttributeRow(parent_path,
                                <<"S", "C", "A", "D", "A">>,
                                IF row.PID_Asset \in DOMAIN scada
                                THEN scada[row.PID_Asset] ELSE <<>>)>>
            ELSE <<>>)

\* Lines 375-391: the Element node of an asset, and the "SCADA Asset Name"
\* Attribute node when the asset has a template.
AssetRows(kind, row, sensors, scada) ==
    LET parent_path == ParentPath(kind, row, sensors)
        element_display_name == get_asset_display_name(row.PID_Asset, row.AssetName)
    IN  <<ElementRow(parent_path, row.PID_Asset, row.AssetName, row.Template)>>
        \o (IF row.Template # "" /\ TemplatesExtractProvided = 1
            THEN <<AttributeRow(parent_path \o PathSep \o element_display_name,
                                <<"S", "C", "A", "D", "A">>,
                                IF row.PID_Asset \in DOMAIN scada
                                THEN scada[row.PID_Asset] ELSE <<>>)>>
            ELSE <<>>)

\* Lines 230-241.
ApplyTemplates ==
    /\ pc = "templates"
    /\ df' = WithTemplates(df, templates, asset_template_mapping)
    /\ pc' = "levels"
    /\ UNCHANGED <<tls_df, dedup_df, scada_asset_mapping, rows, sensor_assets, assets_to_process, ap,
                   notHierVars>>

\* Lines 277-292.
EmitLevels ==
    /\ pc = "levels"
    /\ rows' = LevelRows(df)
    /\ pc' = "order"
    /\ UNCHANGED <<tls_df, dedup_df, df, scada_asset_mapping, sensor_assets, assets_to_process, ap,
                   notHierVars>>

\* Lines 296-349.
OrderAssets ==
    /\ pc = "order"
    /\ sensor_assets' = IF TemplatesExtractProvided = 1 /\ templates # <<>>
                        THEN SensorAssets(df, <<>>) ELSE <<>>
    /\ assets_to_process' = AssetsToProcess(df, templates)
    /\ ap' = 1
    /\ pc' = "assets"
    /\ UNCHANGED <<tls_df, dedup_df, df, scada_asset_mapping, rows, notHierVars>>

\* Lines 352-391: one iteration of the loop over assets_to_process.
EmitAsset ==
    /\ pc = "assets"
    /\ ap <= Len(assets_to_process)
    /\ rows' = rows \o AssetRows(assets_to_process[ap].kind, assets_to_process[ap].row,
                                 sensor_assets, scada_asset_mapping)
    /\ ap' = ap + 1
    /\ UNCHANGED <<pc, tls_df, dedup_df, df, scada_asset_mapping, sensor_assets, assets_to_process,
                   notHierVars>>

\* Lines 393-398: the rows are written out.
WriteOutput ==
    /\ pc = "assets"
    /\ ap > Len(assets_to_process)
    /\ pc' = "written"
    /\ UNCHANGED <<hierVars, notHierVars>>

(***************************************************************************)
(* 010_TreeTagList.py: build_af_import, from the tag sheet to the          *)
(* deduplicated table                                                      *)
(***************************************************************************)
CodePoint(c) ==
    CASE c = "A" -> 65 [] c = "C" -> 67 [] c = "T" -> 84 [] c = "Z" -> 90
      [] c = " " -> 32 [] c = "a" -> 97 [] c = "b" -> 98 [] c = "c" -> 99 [] c = "d" -> 100
      [] c = "e" -> 101 [] c = "n" -> 110

RECURSIVE TextLess(_, _)
\* Python's order on str.
TextLess(s, t) ==
    IF t = <<>> THEN FALSE
    ELSE IF s = <<>> THEN TRUE
    ELSE IF Head(s) # Head(t) THEN CodePoint(Head(s)) < CodePoint(Head(t))
    ELSE TextLess(Tail(s), Tail(t))

\* Line 222: the order of sort_values(by=["Level 2", "Level 3", "P&ID Asset"]).
KeyLess(r, q) ==
    \/ TextLess(r.Level2, q.Level2)
    \/ r.Level2 = q.Level2 /\ TextLess(r.Level3, q.Level3)
    \/ r.Level2 = q.Level2 /\ r.Level3 = q.Level3 /\ TextLess(r.PID_Asset, q.PID_Asset)

\* astype(str).str.strip(): a missing cell becomes the text "nan".
AsStrippedText(v) == IF v = NaN THEN NanText ELSE Strip(v)

\* Line 208: df[df["P&ID Asset"].notna()]
HasAsset(r) == r.PID_Asset # NaN

RECURSIVE ScadaMappingOf(_, _)
\* Lines 211-217: the last row of an asset with a SCADA Asset sets the value.
ScadaMappingOf(table, mapping) ==
    IF table = <<>> THEN mapping
    ELSE LET r == Head(table)
             pid_asset == AsStrippedText(r.PID_Asset)
         IN  ScadaMappingOf(Tail(table),
                 IF r.ScadaAsset # NaN
                 THEN [k \in DOMAIN mapping \cup {pid_asset} |->
                          IF k = pid_asset THEN AsStrippedText(r.ScadaAsset) ELSE mapping[k]]
                 ELSE mapping)

\* Lines 220-221.
Normalised(table) ==
    [i \in 1..Len(table) |->
        [Level2 |-> AsStrippedText(table[i].Level2),
         Level3 |-> AsStrippedText(table[i].Level3),
         PID_Asset |-> AsStrippedText(table[i].PID_Asset),
         AssetName |-> AsStrippedText(table[i].AssetName),
         ScadaAsset |-> table[i].ScadaAsset]]


RECURSIVE InsertByKey(_, _)
\* r placed in a table sorted by key, after the rows of the same key.
InsertByKey(table, r) ==
    IF table = <<>> THEN <<r>>
    ELSE IF KeyLess(r, Head(table)) THEN <<r>> \o table
    ELSE <<Head(table)>> \o InsertByKey(Tail(table), r)

RECURSIVE SortedByKey(_, _)
\* Line 223: sort_values by the three key columns; with several columns
\* pandas sorts with lexsort, which keeps rows of equal key in their order.
SortedByKey(table, done) ==
    IF table = <<>> THEN done
    ELSE SortedByKey(Tail(table), InsertByKey(done, Head(table)))

RECURSIVE LastOfKey(_, _)
\* Of the rows of a table, the last one of each key.
LastOfKey(table, seen) ==
    IF table = <<>> THEN <<>>
    ELSE LET r == table[Len(table)]
             key == <<r.Level2, r.Level3, r.PID_Asset>>
             rest == SubSeq(table, 1, Len(table) - 1)
         IN  IF key \in seen THEN LastOfKey(rest, seen)
             ELSE LastOfKey(rest, seen \cup {key})
                  \o <<[Level2 |-> r.Level2, Level3 |-> r.Level3, PID_Asset |-> r.PID_Asset,
                        AssetName |-> r.AssetName]>>

RECURSIVE FirstOfKey(_, _)
\* Lines 224-227: groupby(dedup_cols, as_index=False).agg({"Asset Name":
\* "first"}): one row per key, in key order, with the Asset Name of the first
\* row of the key.
FirstOfKey(table, seen) ==
    IF table = <<>> THEN <<>>
    ELSE LET r == Head(table)
             key == <<r.Level2, r.Level3, r.PID_Asset>>
         IN  IF key \in seen THEN FirstOfKey(Tail(table), seen)
             ELSE <<[Level2 |-> r.Level2, Level3 |-> r.Level3, PID_Asset |-> r.PID_Asset,
                     AssetName |-> r.AssetName]>>
                  \o FirstOfKey(Tail(table), seen \cup {key})

\* Lines 207-208.
KeepRowsWithAsset ==
    /\ pc = "read"
    /\ df' = SelectSeq(tls_df, HasAsset)
    /\ pc' = "kept"
    /\ UNCHANGED <<tls_df, dedup_df, scada_asset_mapping, rows, sensor_assets,
                   assets_to_process, ap, notHierVars>>

\* Lines 211-217.
BuildScadaMapping ==
    /\ pc = "kept"
    /\ scada_asset_mapping' = ScadaMappingOf(df, <<>>)
    /\ pc' = "mapped"
    /\ UNCHANGED <<tls_df, dedup_df, df, rows, sensor_assets, assets_to_process, ap,
                   notHierVars>>

\* Lines 220-221.
NormaliseText ==
    /\ pc = "mapped"
    /\ df' = Normalised(df)
    /\ pc' = "normalised"
    /\ UNCHANGED <<tls_df, dedup_df, scada_asset_mapping, rows, sensor_assets,
                   assets_to_process, ap, notHierVars>>

\* Line 223.
SortByKey ==
    /\ pc = "normalised"
    /\ df' = SortedByKey(df, <<>>)
    /\ pc' = "ordered"
    /\ UNCHANGED <<tls_df, dedup_df, scada_asset_mapping, rows, sensor_assets,
                   assets_to_process, ap, notHierVars>>

\* Lines 224-228.
Deduplicate ==
    /\ pc = "ordered"
    /\ df' = FirstOfKey(df, {})
    /\ dedup_df' = FirstOfKey(df, {})
    /\ pc' = "deduplicated"
    /\ UNCHANGED <<tls_df, scada_asset_mapping, rows, sensor_assets, assets_to_process, ap,
                   notHierVars>>

(***************************************************************************)
(* 020_TemplateExtraction.py: core templates, coverage, similarity         *)
(***************************************************************************)
MinPopulation == 2
CoverageThreshold == 70
SimilarityThreshold == 70
asset_types_to_process ==
    {"Motor", "Motor VSD", "Valve", "Analog Sensor", "PID Controller",
     "Control Valve", "Flowmeter Totaliser", "Filter"}

\* Line 15: df['Attribute'].astype(str).str.lower()
LowerAttributes(table) == [i \in 1..Len(table) |-> [table[i] EXCEPT !.Attribute = LowerText(@)]]

\* Lines 18-22: Level 3 present and not empty, asset type in the list.
TakesPart(r) == r.Level3 # NaN /\ r.Level3 # <<>> /\ r.AssetType \in asset_types_to_process

TypeRows(table, asset_type) == SelectSeq(table, LAMBDA r : r.AssetType = asset_type)

\* The keys of groupby('P&ID Asset') and the values counted by nunique():
\* the distinct assets of the rows, a missing one left out.
AssetsIn(table) == {table[i].PID_Asset : i \in 1..Len(table)} \ {NaN}

\* Line 43: group.groupby('P&ID Asset')['Attribute'].apply(set), for one asset
AttributeSet(table, asset) ==
    {table[i].Attribute : i \in {k \in 1..Len(table) : table[k].PID_Asset = asset}}

TypesIn(table) == {table[i].AssetType : i \in 1..Len(table)}

\* Line 32: groupby('Asset Type Optimised')['P&ID Asset'].nunique()
AssetCount(table, asset_type) == Cardinality(AssetsIn(TypeRows(table, asset_type)))

Orderings(S) == {s \in [1..Cardinality(S) -> S] : \A i, j \in DOMAIN s : s[i] = s[j] => i = j}

\* Line 33: sort_values(ascending=False) with the default sort, which is not
\* stable: any order of the types with the counts descending.
GroupedOrders(table) ==
    {[i \in DOMAIN s |-> [asset_type |-> s[i], count |-> AssetCount(table, s[i])]] :
        s \in {o \in Orderings(TypesIn(table)) :
                  \A i, j \in DOMAIN o :
                      i < j => AssetCount(table, o[i]) >= AssetCount(table, o[j])}}

RECURSIVE IntersectAll(_)
\* set.intersection(*sets) of at least one set, taken one by one.
IntersectAll(sets) ==
    LET s == CHOOSE x \in sets : TRUE
    IN  IF sets = {s} THEN s ELSE s \cap IntersectAll(sets \ {s})

\* The attributes that some asset of the type has.
CoreTemplateOfAnyAsset(table, asset_type) ==
    LET group == TypeRows(table, asset_type)
    IN  UNION {AttributeSet(group, a) : a \in AssetsIn(group)}

\* Lines 42-46: the template of one asset type.
CoreTemplate(table, asset_type) ==
    LET group == TypeRows(table, asset_type)
    IN  IntersectAll({AttributeSet(group, a) : a \in AssetsIn(group)})

\* Line 44 with two assets being enough.
HasCoreFromTwo(table, asset_type) ==
    Cardinality(AssetsIn(TypeRows(table, asset_type))) >= MinPopulation

\* Line 44: len(asset_attrs) > 2
HasCore(table, asset_type) == Cardinality(AssetsIn(TypeRows(table, asset_type))) > MinPopulation

\* Line 60: group.groupby('Attribute')['P&ID Asset'].nunique(), for one attribute
AttrCount(group, attr) ==
    Cardinality(AssetsIn(SelectSeq(group, LAMBDA r : r.Attribute = attr)))

AttributesIn(group) == {group[i].Attribute : i \in 1..Len(group)}

\* Lines 61-62: attr_counts / asset_count * 100 > 70. The quotient of two
\* small integers times 100 exceeds 70 in floating point exactly when it
\* does in the rationals (7 / 10 * 100 evaluates to 70.0), so the test is
\* made on integers.
AboveCoverageAtLeast(count, asset_count) == count * 100 >= CoverageThreshold * asset_count

\* Lines 61-62 with an attribute that every asset has left out.
AboveCoverageNotAll(count, asset_count) ==
    count * 100 > CoverageThreshold * asset_count /\ count < asset_count

AboveCoverage(count, asset_count) == count * 100 > CoverageThreshold * asset_count

\* Lines 60-63: the attributes of one asset type above the threshold, as
\* (attribute, count) in any order the unstable sort_values(ascending=False)
\* can leave them: the percentages descending.
RankedLists(table, asset_type, asset_count) ==
    LET group == TypeRows(table, asset_type)
        kept == {a \in AttributesIn(group) : AboveCoverage(AttrCount(group, a), asset_count)}
    IN  {[i \in DOMAIN s |-> [attr |-> s[i], count |-> AttrCount(group, s[i]),
                              asset_count |-> asset_count]] :
            s \in {o \in Orderings(kept) :
                      \A i, j \in DOMAIN o :
                          i < j => AttrCount(group, o[i]) >= AttrCount(group, o[j])}}

\* Lines 150-157: the set of the attributes above the threshold.
FilteredSet(table, asset_type, asset_count) ==
    LET group == TypeRows(table, asset_type)
    IN  {a \in AttributesIn(group) : AboveCoverage(AttrCount(group, a), asset_count)}

\* Lines 169-170: len(intersection) / len(union) * 100 > 70, on integers as
\* for the coverage.
\* The shared attributes as a share of the first set alone.
IsSimilarToFirst(set1, set2) ==
    Cardinality(set1 \cap set2) * 100 > SimilarityThreshold * Cardinality(set1)

IsSimilar(set1, set2) ==
    Cardinality(set1 \cap set2) * 100 > SimilarityThreshold * Cardinality(set1 \cup set2)

\* Lines 165-171: the pair is reported.
Reported(set1, set2) ==
    /\ set1 # {} /\ set2 # {}
    /\ set1 \cup set2 # {}
    /\ IsSimilar(set1, set2)

\* Lines 15-22.
FilterRows ==
    /\ pc = "discover"
    /\ df_filtered' = SelectSeq(LowerAttributes(tag_df), TakesPart)
    /\ pc' = "filtered"
    /\ UNCHANGED <<tag_df, grouped, core_templates, coverage, ci, filtered_attr_sets, similar,
                   assets_with_all_per_type, templates_json, notDiscVars>>

\* Lines 32-33.
CountAssets ==
    /\ pc = "filtered"
    /\ grouped' \in GroupedOrders(df_filtered)
    /\ pc' = "counted"
    /\ UNCHANGED <<tag_df, df_filtered, core_templates, coverage, ci, filtered_attr_sets,
                   similar,
                   assets_with_all_per_type, templates_json, notDiscVars>>

\* Lines 41-46.
FindCoreTemplates ==
    /\ pc = "counted"
    /\ core_templates' =
           [t \in {x \in TypesIn(df_filtered) : HasCore(df_filtered, x)} |->
               CoreTemplate(df_filtered, t)]
    /\ ci' = 1
    /\ pc' = "coverage"
    /\ UNCHANGED <<tag_df, df_filtered, grouped, coverage, filtered_attr_sets, similar,
                   assets_with_all_per_type, templates_json, notDiscVars>>

\* Lines 57-63: one iteration of the loop over grouped[grouped > 2].index.
RankCoverage ==
    /\ pc = "coverage"
    /\ ci <= Len(grouped)
    /\ grouped[ci].count > MinPopulation
    /\ \E ranked \in RankedLists(df_filtered, grouped[ci].asset_type, grouped[ci].count) :
          coverage' = [t \in DOMAIN coverage \cup {grouped[ci].asset_type} |->
                          IF t = grouped[ci].asset_type THEN ranked ELSE coverage[t]]
    /\ ci' = ci + 1
    /\ UNCHANGED <<pc, tag_df, df_filtered, grouped, core_templates, filtered_attr_sets,
                   similar,
                   assets_with_all_per_type, templates_json, notDiscVars>>

\* Lines 149-157: the loop ends at the first type with no more than 2 assets;
\* then the non-empty filtered sets are collected.
CollectFilteredSets ==
    /\ pc = "coverage"
    /\ IF ci <= Len(grouped) THEN grouped[ci].count <= MinPopulation ELSE TRUE
    /\ LET big == {i \in DOMAIN grouped : grouped[i].count > MinPopulation}
           kept == {i \in big : FilteredSet(df_filtered, grouped[i].asset_type,
                                            grouped[i].count) # {}}
       IN  filtered_attr_sets' =
               [t \in {grouped[i].asset_type : i \in kept} |->
                   FilteredSet(df_filtered, t, AssetCount(df_filtered, t))]
    /\ pc' = "sets"
    /\ UNCHANGED <<tag_df, df_filtered, grouped, core_templates, coverage, ci, similar,
                   assets_with_all_per_type, templates_json, notDiscVars>>

\* Lines 160-171.
CompareTypes ==
    /\ pc = "sets"
    /\ similar' = {p \in SUBSET DOMAIN filtered_attr_sets :
                      /\ Cardinality(p) = 2
                      /\ \E at1, at2 \in p :
                            /\ at1 # at2
                            /\ Reported(filtered_attr_sets[at1], filtered_attr_sets[at2])}
    /\ pc' = "compared"
    /\ UNCHANGED <<tag_df, df_filtered, grouped, core_templates, coverage, ci,
                   filtered_attr_sets,
                   assets_with_all_per_type, templates_json, notDiscVars>>


\* Line 24: the rows whose Level 3 is empty or missing.
WithoutHierarchy(r) == r.Level3 = <<>> \/ r.Level3 = NaN

\* The keys of groupby('SCADA Asset'): the distinct SCADA assets of the rows,
\* a missing one left out.
ScadaAssetsIn(table) == {table[i].ScadaAsset : i \in 1..Len(table)} \ {NaN}

\* Line 191: groupby('SCADA Asset')['Attribute'].apply(set), for one SCADA asset
ScadaAttributeSet(table, scada_asset) ==
    {table[i].Attribute : i \in {k \in 1..Len(table) : table[k].ScadaAsset = scada_asset}}

\* Lines 187-188: the assets of the type, among the rows that take part, that
\* have every selected attribute.
CountAll(asset_type, selected_attrs) ==
    LET group == TypeRows(df_filtered, asset_type)
    IN  Cardinality({a \in AssetsIn(group) : selected_attrs \subseteq AttributeSet(group, a)})

\* Lines 190-192: the same count over the rows without hierarchy, by SCADA asset.
CountWithoutHierarchy(asset_type, selected_attrs) ==
    LET assets_wohierarchy ==
            TypeRows(SelectSeq(LowerAttributes(tag_df), WithoutHierarchy), asset_type)
    IN  Cardinality({s \in ScadaAssetsIn(assets_wohierarchy) :
                        selected_attrs \subseteq ScadaAttributeSet(assets_wohierarchy, s)})

\* Lines 181-193.
AssetsWithAllPerType ==
    LET big == {i \in DOMAIN grouped : grouped[i].count > MinPopulation}
    IN  [t \in {grouped[i].asset_type : i \in big} |->
            LET selected_attrs == FilteredSet(df_filtered, t, AssetCount(df_filtered, t))
            IN  CountAll(t, selected_attrs) + CountWithoutHierarchy(t, selected_attrs)]

\* Line 400: round(with / total * 100, 1), held in tenths of a percent. No
\* quotient of two small counts lies halfway between two tenths, so the
\* nearest tenth is the same under every rounding rule.
RoundedPercentage(with_template, total) == (2000 * with_template + total) \div (2 * total)

\* Lines 395-408: the specification of one asset type.
TemplateSpec(asset_type, asset_count, with_all) ==
    [name |-> asset_type,
     asset_count_with_template |-> IF asset_type \in DOMAIN with_all THEN with_all[asset_type] ELSE 0,
     total_asset_count |-> asset_count,
     coverage_percentage |->
         RoundedPercentage(IF asset_type \in DOMAIN with_all THEN with_all[asset_type] ELSE 0,
                           asset_count)]

\* Lines 181-193 and 338-410: the counts of section 4, then one template
\* specification for every type with more than 2 assets and at least one
\* attribute above the threshold, in the order of grouped.
ExportTemplates ==
    /\ pc = "compared"
    /\ assets_with_all_per_type' = AssetsWithAllPerType
    /\ LET kept == SelectSeq(grouped, LAMBDA g :
                       /\ g.count > MinPopulation
                       /\ FilteredSet(df_filtered, g.asset_type, g.count) # {})
       IN  templates_json' =
               [i \in 1..Len(kept) |->
                   TemplateSpec(kept[i].asset_type, kept[i].count, assets_with_all_per_type')]
    /\ pc' = "exported"
    /\ UNCHANGED <<tag_df, df_filtered, grouped, core_templates, coverage, ci,
                   filtered_attr_sets, similar, notDiscVars>>
(***************************************************************************)
(* build_af_import, lines 181-205: the choice of the tag sheet and the     *)
(* check of its columns (the same in 001_TreeTagList.py, lines 10-34)      *)
(***************************************************************************)
FinalSheetName == "PI System - Import Tags - Final"

needed_cols == <<"P&ID Asset", "Asset Name", "Level 2", "Level 3">>

NeededSet == {needed_cols[i] : i \in DOMAIN needed_cols}

NoError == [message |-> "", columns |-> <<>>]

\* "PI System - Import Tags - Final" in tls_sheets
HasFinalSheet(sheets) == \E i \in DOMAIN sheets : sheets[i].name = FinalSheetName

\* {"P&ID Asset", "Asset Name", "Level 2", "Level 3"} <= set(df.columns)
HasNeeded(sheet) == NeededSet \subseteq sheet.columns

\* [c for c in needed_cols if c not in tls_df.columns]
Missing(columns) == SelectSeq(needed_cols, LAMBDA c : c \notin columns)

\* The sheet with the fixed name if there is one; otherwise the first sheet,
\* in workbook order, that has the four columns; otherwise the run ends with
\* a ValueError that carries no column name.
SelectSheet ==
    /\ pc = "open"
    /\ IF HasFinalSheet(tls_sheets)
       THEN LET i == CHOOSE k \in DOMAIN tls_sheets : tls_sheets[k].name = FinalSheetName
            IN  /\ tls_columns' = tls_sheets[i].columns
                /\ pc' = "selected"
                /\ error' = error
       ELSE IF \E k \in DOMAIN tls_sheets : HasNeeded(tls_sheets[k])
            THEN LET i == CHOOSE k \in DOMAIN tls_sheets :
                              /\ HasNeeded(tls_sheets[k])
                              /\ \A j \in 1..(k - 1) : ~HasNeeded(tls_sheets[j])
                 IN  /\ tls_columns' = tls_sheets[i].columns
                     /\ pc' = "selected"
                     /\ error' = error
            ELSE /\ error' = [message |-> "Could not find a sheet with required columns.",
                              columns |-> <<>>]
                 /\ pc' = "failed"
                 /\ tls_columns' = tls_columns
    /\ UNCHANGED <<tls_sheets, notReadVars>>

\* missing = [...]; if missing: raise ValueError(f"Missing required columns
\* in TLS sheet: {missing}")
CheckColumns ==
    /\ pc = "selected"
    /\ IF Missing(tls_columns) # <<>>
       THEN /\ error' = [message |-> "Missing required columns in TLS sheet: ",
                         columns |-> Missing(tls_columns)]
            /\ pc' = "failed"
       ELSE /\ error' = error
            /\ pc' = "read"
    /\ UNCHANGED <<tls_sheets, tls_columns, notReadVars>>

(***************************************************************************)
(* Initial states and specifications                                       *)
(***************************************************************************)
DecIdle ==
    /\ name = <<>>
    /\ tokens = <<>>
    /\ asset_parts = <<>>
    /\ attr_parts = <<>>
    /\ parsed = NotParsed

LoadIdle ==
    /\ element_templates = <<>>
    /\ attribute_templates = <<>>
    /\ templates = <<>>
    /\ order = <<>>
    /\ todo = <<>>
    /\ stack = <<>>

MatchIdle ==
    /\ asset_attributes = <<>>
    /\ asset_order = <<>>
    /\ asset_template_mapping = <<>>
    /\ mt = 0
    /\ ma = 0
    /\ previous_mapping = NotRun

HierIdle ==
    /\ tls_df = <<>>
    /\ dedup_df = <<>>
    /\ df = <<>>
    /\ scada_asset_mapping = <<>>
    /\ rows = <<>>
    /\ sensor_assets = <<>>
    /\ assets_to_process = <<>>
    /\ ap = 0

ReadIdle ==
    /\ tls_sheets = <<>>
    /\ tls_columns = {}
    /\ error = NoError

DiscIdle ==
    /\ tag_df = <<>>
    /\ df_filtered = <<>>
    /\ grouped = <<>>
    /\ core_templates = <<>>
    /\ coverage = <<>>
    /\ ci = 0
    /\ filtered_attr_sets = <<>>
    /\ similar = {}
    /\ assets_with_all_per_type = <<>>
    /\ templates_json = <<>>

InitDecompose ==
    /\ pc = "parse"
    /\ name \in Identifiers
    /\ tokens = <<>>
    /\ asset_parts = <<>>
    /\ attr_parts = <<>>
    /\ parsed = NotParsed
    /\ LoadIdle
    /\ MatchIdle
    /\ HierIdle
    /\ DiscIdle
    /\ ReadIdle

NextDecompose == ParseShort \/ ParseNoToken \/ ParseTokens

SpecDecompose == InitDecompose /\ [][NextDecompose]_vars

\* The template file read by load_af_templates: ElementTemplate rows in
\* ElementOrder, each with any base (none, a template, an unknown name), and
\* up to MaxAttrRows AttributeTemplate rows.
MaxAttrRows == 3
ElementOrder == <<"T2", "T1", "T3">>
TemplateNames == {"T1", "T2", "T3"}
BaseNames == TemplateNames \cup {"", "T0"}
AttributeNames == {"x", "y"}
ConfigOf(parent) ==
    CASE parent = "T1" -> <<Delim, " ", "A">>
      [] parent = "T2" -> NaN
      [] OTHER -> <<"B", Delim, "C", " ", Delim, "A">>

AttributeRows ==
    {[Parent |-> p, Name |-> n, AttributeConfigString |-> ConfigOf(p)] :
        p \in TemplateNames, n \in AttributeNames}

InitResolve ==
    /\ pc = "load"
    /\ \E base \in [1..Len(ElementOrder) -> BaseNames] :
          element_templates =
              [i \in 1..Len(ElementOrder) |-> [Name |-> ElementOrder[i], BaseTemplate |-> base[i]]]
    /\ attribute_templates \in SeqsUpTo(AttributeRows, MaxAttrRows)
    /\ templates = <<>>
    /\ order = <<>>
    /\ todo = <<>>
    /\ stack = <<>>
    /\ DecIdle
    /\ MatchIdle
    /\ HierIdle
    /\ DiscIdle
    /\ ReadIdle

NextResolve ==
    \/ FirstPass
    \/ StartWalk
    \/ EnterRevisit
    \/ EnterCall
    \/ EnterLeaf
    \/ ReturnToCaller
    \/ FinishWalk
    \/ SortTemplates

SpecResolve == InitResolve /\ [][NextResolve]_vars

\* The state after the resolution loop (line 98) for two templates, and the
\* asset attribute sets of lines 124-132. A resolved list holds one descriptor
\* per tag of a set of tags, then up to MaxExtra descriptors with no tag
\* attribute; the matcher reads the list only as a set and by its length.
MaxExtra == 3
MatchOrder == <<"T2", "T1">>
Tags == {<<"a">>, <<"b">>, <<"c">>}
TagList == << <<"a">>, <<"b">>, <<"c">> >>
Assets == {"P1", "P2"}
AssetList == <<"P1", "P2">>

TagDescriptors(S) ==
    LET picked == SelectSeq(TagList, LAMBDA t : t \in S)
    IN  [i \in 1..Len(picked) |->
            [name |-> picked[i][1], tag_attribute |-> picked[i],
             config_string |-> <<Delim>> \o picked[i]]]

Unmatchable(k) == [i \in 1..k |-> [name |-> "u", tag_attribute |-> <<>>, config_string |-> NaN]]

ResolvedLists == {TagDescriptors(S) \o Unmatchable(k) : S \in SUBSET Tags, k \in 0..MaxExtra}

InitMatch ==
    /\ pc = "resolve"
    /\ element_templates = <<>>
    /\ attribute_templates = <<>>
    /\ \E lists \in [{"T1", "T2"} -> ResolvedLists] :
          templates = [n \in {"T1", "T2"} |->
                          [base_template |-> "",
                           direct_attributes |-> lists[n],
                           all_attributes |-> lists[n],
                           attribute_count |-> Len(lists[n])]]
    /\ order = MatchOrder
    /\ todo = <<>>
    /\ stack = <<>>
    /\ asset_attributes \in [Assets -> (SUBSET Tags) \ {{}}]
    /\ asset_order = AssetList
    /\ asset_template_mapping = <<>>
    /\ mt = 0
    /\ ma = 0
    /\ previous_mapping = NotRun
    /\ DecIdle
    /\ HierIdle
    /\ DiscIdle
    /\ ReadIdle

NextMatch ==
    \/ SortTemplates
    \/ MatchStart
    \/ MatchSkipTemplate
    \/ MatchAsset
    \/ MatchNextTemplate
    \/ MatchDone
    \/ MatchAgain

SpecMatch == InitMatch /\ [][NextMatch]_vars

\* The table build_af_import holds after line 228: at most MaxAssets rows with
\* distinct (Level 2, Level 3, P&ID Asset) keys, sorted by key, every text
\* stripped; Level 2 may be empty and Level 3 may be empty or the text "nan"
\* that astype(str) makes of a missing cell. The description is a function of the
\* asset. The templates are either absent or loaded, and then the matcher has
\* mapped some of the assets of the table to a template.
MaxAssets == 3
Level2Values == {<<"A">>, <<>>}
Level3Values == {<<"Z">>, NanText, <<>>}
LongIds == {<<"C", "C", "T">>, <<"T", "C", "T">>, <<"C", "T", "T">>}
ShortIds == {<<"C", "T">>, <<"T", "T">>}
AssetIds == LongIds \cup ShortIds
DescriptionOf(id) == IF id = <<"T", "C", "T">> THEN <<"d">> ELSE <<>>
ScadaMapping == [id \in AssetIds \ {<<"C", "T", "T">>} |-> <<"s">> \o id]
HierTemplateNames == {SensorTemplate, ControllerTemplate, "T1"}
HierTemplates ==
    [n \in HierTemplateNames |->
        [base_template |-> "",
         direct_attributes |-> TagDescriptors({<<"a">>}),
         all_attributes |-> TagDescriptors({<<"a">>}),
         attribute_count |-> 1]]

RECURSIVE SortedTable(_)
SortedTable(S) ==
    IF S = {} THEN <<>>
    ELSE LET first == CHOOSE r \in S : \A q \in S \ {r} : KeyLess(r, q)
         IN  <<first>> \o SortedTable(S \ {first})

\* The two-character ids stand in one place of the plant only.
TableRows ==
    {[Level2 |-> l2, Level3 |-> l3, PID_Asset |-> id, AssetName |-> DescriptionOf(id)] :
        l2 \in Level2Values, l3 \in Level3Values, id \in LongIds}
    \cup {[Level2 |-> <<"A">>, Level3 |-> <<"Z">>, PID_Asset |-> id,
           AssetName |-> DescriptionOf(id)] : id \in ShortIds}

InitHierarchy ==
    /\ pc = "templates"
    /\ \E S \in SUBSET TableRows :
          /\ Cardinality(S) <= MaxAssets
          /\ dedup_df = SortedTable(S)
          /\ \/ templates = <<>> /\ asset_template_mapping = <<>>
             \/ /\ templates = HierTemplates
                /\ \E matched \in SUBSET {r.PID_Asset : r \in S} :
                      asset_template_mapping \in [matched -> HierTemplateNames]
    /\ tls_df = <<>>
    /\ df = dedup_df
    /\ scada_asset_mapping = ScadaMapping
    /\ rows = <<>>
    /\ sensor_assets = <<>>
    /\ assets_to_process = <<>>
    /\ ap = 0
    /\ element_templates = <<>>
    /\ attribute_templates = <<>>
    /\ order = <<>>
    /\ todo = <<>>
    /\ stack = <<>>
    /\ asset_attributes = <<>>
    /\ asset_order = <<>>
    /\ mt = 0
    /\ ma = 0
    /\ previous_mapping = NotRun
    /\ DecIdle
    /\ DiscIdle
    /\ ReadIdle

NextHierarchy ==
    \/ ApplyTemplates
    \/ EmitLevels
    \/ OrderAssets
    \/ EmitAsset
    \/ WriteOutput

SpecHierarchy == InitHierarchy /\ [][NextHierarchy]_vars

\* The tag table of 020_TemplateExtraction.py. The type Motor has up to
\* MaxPopulation assets; attribute a is on its first ka assets, so that every
\* count from none to all occurs, b is on none, on the same or on all of them,
\* and c is on none or all; an asset left with no attribute has e. The type
\* Valve has three assets; c is on all three, and each of a, b, d is on all
\* three or on the first only. Attribute a is written "A" on the odd Motor
\* assets. The other rows are a Motor row with no asset, Motor rows whose
\* Level 3 is empty or missing, a row of a type that is not in
\* asset_types_to_process, a Filter row with no asset, and a Valve row whose
\* Level 3 is missing. The SCADA asset of a row goes with its asset.
MaxPopulation == 10
ValveLabels == {<<"a">>, <<"b">>, <<"d">>}
TagRow(level3, asset_type, pid_asset, attribute) ==
    [Level3 |-> level3, AssetType |-> asset_type, PID_Asset |-> pid_asset,
     ScadaAsset |-> IF pid_asset = NaN THEN NaN ELSE <<"s">> \o pid_asset,
     Attribute |-> attribute]

MotorRows(n, ka, kb, kc) ==
    LET rowsOf(i) ==
            (IF i <= ka
             THEN <<TagRow(<<"Z">>, "Motor", <<"M", ToString(i)>>,
                           IF i % 2 = 1 THEN <<"A">> ELSE <<"a">>)>>
             ELSE <<>>)
            \o (IF i <= kb THEN <<TagRow(<<"Z">>, "Motor", <<"M", ToString(i)>>, <<"b">>)>>
                ELSE <<>>)
            \o (IF i > n - kc THEN <<TagRow(<<"Z">>, "Motor", <<"M", ToString(i)>>, <<"c">>)>>
                ELSE <<>>)
            \o (IF i > ka /\ i > kb /\ i <= n - kc
                THEN <<TagRow(<<"Z">>, "Motor", <<"M", ToString(i)>>, <<"e">>)>>
                ELSE <<>>)
    IN  Join([i \in 1..n |-> rowsOf(i)])

ValveRows(onAll) ==
    LET labels == << <<"a">>, <<"b">>, <<"c">>, <<"d">> >>
        rowsOf(i) ==
            Join([k \in 1..Len(labels) |->
                     IF i = 1 \/ labels[k] = <<"c">> \/ labels[k] \in onAll
                     THEN <<TagRow(<<"Y">>, "Valve", <<"V", ToString(i)>>, labels[k])>>
                     ELSE <<>>])
    IN  rowsOf(1) \o rowsOf(2) \o rowsOf(3)

OtherRows ==
    <<TagRow(<<"Z">>, "Motor", NaN, <<"a">>),
      TagRow(<<>>, "Motor", <<"M", "1">>, <<"d">>),
      TagRow(NaN, "Motor", <<"M", "1">>, <<"d">>),
      TagRow(<<"Z">>, "Motor", <<"M", "1">>, <<"a">>),
      TagRow(<<"Z">>, "Pump", <<"P", "1">>, <<"a">>),
      TagRow(<<"Z">>, "Filter", NaN, <<"a">>),
      TagRow(NaN, "Valve", <<"V", "9">>, <<"c">>)>>

InitDiscover ==
    /\ pc = "discover"
    /\ \E n \in 0..MaxPopulation :
          \E ka \in 0..n, kc \in {0, n} :
              \E kb \in {0, ka, n}, onAll \in SUBSET ValveLabels :
                  tag_df = MotorRows(n, ka, kb, kc) \o OtherRows \o ValveRows(onAll)
    /\ df_filtered = <<>>
    /\ grouped = <<>>
    /\ core_templates = <<>>
    /\ coverage = <<>>
    /\ ci = 0
    /\ filtered_attr_sets = <<>>
    /\ similar = {}
    /\ assets_with_all_per_type = <<>>
    /\ templates_json = <<>>
    /\ DecIdle
    /\ LoadIdle
    /\ MatchIdle
    /\ HierIdle
    /\ ReadIdle

NextDiscover ==
    \/ FilterRows
    \/ CountAssets
    \/ FindCoreTemplates
    \/ RankCoverage
    \/ CollectFilteredSets
    \/ CompareTypes
    \/ ExportTemplates

SpecDiscover == InitDiscover /\ [][NextDiscover]_vars

\* The rows of the tag sheet read by build_af_import: up to MaxRawRows rows;
\* a cell may be missing, and an asset may be written with a trailing blank.
\* The SCADA Asset of a row goes with its Asset Name.
MaxRawRows == 3
RawLevel3 == {<<"Z">>, NaN}
RawAssets == {<<"C", "T">>, <<"C", "T", " ">>, <<"T", "T">>, NaN}
RawAssetNames == {<<"d">>, <<"e">>, NaN}
RawScadaOf(asset_name) ==
    CASE asset_name = <<"d">> -> <<"s">> [] asset_name = <<"e">> -> <<"t", " ">> [] OTHER -> NaN

RawRows ==
    {[Level2 |-> <<"A">>, Level3 |-> l3, PID_Asset |-> id, AssetName |-> nm,
      ScadaAsset |-> RawScadaOf(nm)] :
        l3 \in RawLevel3, id \in RawAssets, nm \in RawAssetNames}

InitDedup ==
    /\ pc = "read"
    /\ tls_df \in SeqsUpTo(RawRows, MaxRawRows)
    /\ dedup_df = <<>>
    /\ df = <<>>
    /\ scada_asset_mapping = <<>>
    /\ rows = <<>>
    /\ sensor_assets = <<>>
    /\ assets_to_process = <<>>
    /\ ap = 0
    /\ DecIdle
    /\ LoadIdle
    /\ MatchIdle
    /\ DiscIdle
    /\ ReadIdle

NextDedup ==
    \/ KeepRowsWithAsset
    \/ BuildScadaMapping
    \/ NormaliseText
    \/ SortByKey
    \/ Deduplicate

SpecDedup == InitDedup /\ [][NextDedup]_vars


\* The tag workbook: up to MaxSheets sheets with different names; a sheet
\* has any of the four needed columns and possibly the SCADA Asset column.
MaxSheets == 2
SheetNames == {FinalSheetName, "Sheet1", "Sheet2"}
SheetColumns == SUBSET (NeededSet \cup {"SCADA Asset"})
Sheets == [name : SheetNames, columns : SheetColumns]

InitRead ==
    /\ pc = "open"
    /\ tls_sheets \in {w \in SeqsUpTo(Sheets, MaxSheets) :
                          /\ w # <<>>
                          /\ \A i, j \in DOMAIN w : i # j => w[i].name # w[j].name}
    /\ tls_columns = {}
    /\ error = NoError
    /\ DecIdle
    /\ LoadIdle
    /\ MatchIdle
    /\ HierIdle
    /\ DiscIdle

NextRead == SelectSheet \/ CheckColumns

SpecRead == InitRead /\ [][NextRead]_vars

(***************************************************************************)
(* Properties                                                               *)
(***************************************************************************)
IsPrefixOf(t, s) == Len(t) <= Len(s) /\ SubSeq(s, 1, Len(t)) = t

RECURSIVE IsInterleaving(_, _, _)
\* s is the concatenation of some merge of the token lists xs and ys that
\* keeps the order of each.
IsInterleaving(xs, ys, s) ==
    IF xs = <<>> /\ ys = <<>> THEN s = <<>>
    ELSE \/ /\ xs # <<>>
            /\ IsPrefixOf(Head(xs), s)
            /\ IsInterleaving(Tail(xs), ys, Drop(s, Len(Head(xs))))
         \/ /\ ys # <<>>
            /\ IsPrefixOf(Head(ys), s)
            /\ IsInterleaving(xs, Tail(ys), Drop(s, Len(Head(ys))))

Core == Drop(name, PrefixLength)

\* C4: for every identifier of length >= prefixLength, the tokens routed to
\* the asset and those routed to the attribute, interleaved back by token
\* position, concatenate to exactly the suffix: every character of the suffix
\* is in the two returned strings exactly once.
C4_RoundTrip ==
    (pc = "parsed" /\ Len(name) >= PrefixLength) =>
        /\ IsInterleaving(asset_parts, attr_parts, Core)
        /\ parsed.asset = Join(asset_parts)
        /\ parsed.attribute = Join(attr_parts)
        /\ Len(parsed.asset) + Len(parsed.attribute) = Len(Core)

LoneToken == Len(name) >= PrefixLength /\ Len(FindTokens(Core, 1)) = 1

PosIn(s, x) == CHOOSE i \in 1..Len(s) : s[i] = x

Count(n) == templates[n].attribute_count

Required(n) == RequiredAttributes(templates[n])

\* A pair of templates as in C3: T1 has 3 required attributes, T2 has 1, one
\* of T1's.
SpecificPair(t1, t2) ==
    /\ t1 # t2
    /\ Cardinality(Required(t1)) = 3
    /\ Cardinality(Required(t2)) = 1
    /\ Required(t2) \subseteq Required(t1)

AssignedTo(a) == IF a \in DOMAIN asset_template_mapping THEN asset_template_mapping[a] ELSE ""

\* C3 as stated: with T2's required set a strict subset of T1's (3 against
\* 1), every asset that has T1's required set is assigned T1, never T2,
\* whatever non-matchable attributes the templates carry.
C3_SpecificWins ==
    pc = "matched" =>
        \A t1, t2 \in DOMAIN templates :
            SpecificPair(t1, t2) =>
                \A a \in DOMAIN asset_attributes :
                    Required(t1) \subseteq asset_attributes[a] => AssignedTo(a) = t1

\* t1 is tried before t2: more resolved attributes (matchable or not), or as
\* many and declared first.
TriedBefore(t1, t2) ==
    \/ Count(t1) > Count(t2)
    \/ Count(t1) = Count(t2) /\ PosIn(MatchOrder, t1) < PosIn(MatchOrder, t2)

\* C3 amended: such an asset is assigned T1 when T1's attribute_count (all
\* resolved attributes) is greater than T2's, or equal with T1 declared
\* first; otherwise it is assigned T2.
C3_PriorityByAttributeCount ==
    pc = "matched" =>
        \A t1, t2 \in DOMAIN templates :
            SpecificPair(t1, t2) =>
                \A a \in DOMAIN asset_attributes :
                    Required(t1) \subseteq asset_attributes[a] =>
                        AssignedTo(a) = IF TriedBefore(t1, t2) THEN t1 ELSE t2

C3_Witness ==
    /\ pc = "matched"
    /\ SpecificPair("T1", "T2")
    /\ Count("T2") > Count("T1")
    /\ asset_attributes["P1"] = Tags
    /\ AssignedTo("P1") = "T2"
    /\ AssignedTo("P2") = ""

\* C8: during a match run an asset has at most one template, and an
\* assignment, once made, is never changed or removed by a later template.
C8_AssignmentIsFinal ==
    /\ [](pc \in {"match", "matched"} =>
            \A a \in DOMAIN asset_template_mapping :
                /\ a \in DOMAIN asset_attributes
                /\ asset_template_mapping[a] \in DOMAIN templates)
    /\ [][pc = "match" =>
            \A a \in DOMAIN asset_template_mapping :
                /\ a \in DOMAIN asset_template_mapping'
                /\ asset_template_mapping'[a] = asset_template_mapping[a]]_vars

C8_Witness ==
    /\ pc = "match"
    /\ mt = 2
    /\ ma = 2
    /\ AssignedTo("P1") = order[1]
    /\ Required(order[2]) # {}
    /\ Required(order[2]) \subseteq asset_attributes["P1"]

\* ----- priority order -----
DeclaredNames == [i \in 1..Len(element_templates) |-> element_templates[i].Name]

CountDescending ==
    \A i, j \in 1..Len(order) : i < j => Count(order[i]) >= Count(order[j])

\* C9 as stated: the priority order is by attribute_count descending, equal
\* counts ordered by template name.
C9_TiesByName ==
    pc = "sorted" =>
        /\ CountDescending
        /\ \A i, j \in 1..Len(order) :
               (i < j /\ Count(order[i]) = Count(order[j])) =>
                   NameRank(order[i]) < NameRank(order[j])

\* C9 amended: the priority order is by attribute_count descending, equal
\* counts keeping their order of appearance in the definition input.
C9_TiesByAppearance ==
    pc = "sorted" =>
        /\ CountDescending
        /\ {order[i] : i \in 1..Len(order)} = DOMAIN templates
        /\ \A i, j \in 1..Len(order) :
               (i < j /\ Count(order[i]) = Count(order[j])) =>
                   PosIn(DeclaredNames, order[i]) < PosIn(DeclaredNames, order[j])

C9_Witness ==
    /\ pc = "sorted"
    /\ Count("T1") = Count("T2")
    /\ Count("T3") > Count("T1")
    /\ order = <<"T3", "T2", "T1">>

\* ----- inheritance resolution -----
RECURSIVE Chain(_, _)
\* The base chain of template n: n, its base, the base of its base, ..., up to
\* the first name that is no template or is in the chain already.
Chain(n, seen) ==
    IF n \in seen \/ n \notin DOMAIN templates THEN <<>>
    ELSE <<n>> \o Chain(templates[n].base_template, seen \cup {n})

WithName(attrs, x) == SelectSeq(attrs, LAMBDA d : d.name = x)

Declares(n, x) == x \in AttrNames(templates[n].direct_attributes)

\* The nearest template of the chain that declares x.
Nearest(chain, x) == chain[CHOOSE i \in 1..Len(chain) :
                            /\ Declares(chain[i], x)
                            /\ \A j \in 1..(i - 1) : ~Declares(chain[j], x)]

Resolved(n) == templates[n].all_attributes

Direct(n) == templates[n].direct_attributes

StackNames == [i \in 1..Len(stack) |-> stack[i].name]

\* Every frame below the top one is in its recursive call, the names of these
\* frames are pairwise distinct, and a frame's visited set is exactly the
\* names entered so far: a walk enters a name at most once.
WalkVisitsOnce ==
    /\ Len(stack) <= Cardinality(DOMAIN templates) + 1
    /\ \A i \in 1..Len(stack) :
          /\ i < Len(stack) => stack[i].at = "call"
          /\ stack[i].at = "enter" => stack[i].visited = {stack[j].name : j \in 1..(i - 1)}
          /\ stack[i].at = "call" => stack[i].visited = {stack[j].name : j \in 1..i}
          /\ stack[i].visited \subseteq DOMAIN templates
          /\ Len(stack[i].all_attrs) <= Len(attribute_templates)
    /\ \A i, j \in 1..(Len(stack) - 1) : i # j => stack[i].name # stack[j].name

NumTemplates == Len(element_templates)

FrameRank(f) == IF f.at = "enter" THEN 2 * (NumTemplates - Cardinality(f.visited)) + 2 ELSE 1

RECURSIVE StackRank(_)
StackRank(s) == IF s = <<>> THEN 0 ELSE FrameRank(Head(s)) + StackRank(Tail(s))

WalkRank == 2 * NumTemplates + 4

\* A natural number that every step of the resolution decreases.
Rank ==
    CASE pc = "load" -> (NumTemplates + 1) * WalkRank + 2
      [] pc = "resolve" ->
            Len(todo) * WalkRank + 1
            + (IF stack = <<>> THEN 2 * NumTemplates + 3 ELSE StackRank(stack))
      [] OTHER -> 0

\* A step of the resolution is possible: the guards of its actions.
StepPossible ==
    \/ pc = "load"
    \/ pc = "resolve" /\ stack = <<>>
    \/ pc = "resolve" /\ stack # <<>> /\ Top.at = "enter"
    \/ pc = "resolve" /\ Len(stack) >= 2 /\ Top.at = "return"
    \/ pc = "resolve" /\ Len(stack) = 1 /\ Top.at = "return"
          /\ todo # <<>> /\ Top.name \in DOMAIN templates

ResolutionInv ==
    /\ pc \in {"load", "resolve", "sorted"}
    /\ WalkVisitsOnce
    /\ Rank >= 0
    /\ pc # "sorted" => StepPossible
    /\ pc = "sorted" =>
            \A n \in DOMAIN templates :
                /\ Count(n) = Len(Resolved(n))
                /\ Count(n) <= Len(attribute_templates)

\* C6: resolution terminates for every definition map, cyclic ones included:
\* a walk enters a name at most once and stops at a revisited name, every step
\* decreases a natural number, a step is possible until the priority order is
\* produced, and every resolved list is finite.
C6_ResolutionTerminates == [][Rank' < Rank /\ ResolutionInv /\ ResolutionInv']_vars

C6_Witness ==
    /\ pc = "sorted"
    /\ templates["T1"].base_template = "T2"
    /\ templates["T2"].base_template = "T3"
    /\ templates["T3"].base_template = "T1"
    /\ Count("T1") = 2

\* C10: a resolved list starts with the template's direct attributes in
\* declared order, the rest being inherited; for a name declared by the
\* template or its ancestors the list holds the descriptors of the nearest
\* declaration, and no other.
C10_DirectFirstNearestWins ==
    pc = "sorted" =>
        \A n \in DOMAIN templates :
            LET chain == Chain(n, {})
                declared == UNION {AttrNames(Direct(chain[i])) : i \in 1..Len(chain)}
            IN  /\ SubSeq(Resolved(n), 1, Len(Direct(n))) = Direct(n)
                /\ \A k \in (Len(Direct(n)) + 1)..Len(Resolved(n)) :
                       \E i \in 2..Len(chain) :
                           \E p \in 1..Len(Direct(chain[i])) :
                               Direct(chain[i])[p] = Resolved(n)[k]
                /\ AttrNames(Resolved(n)) = declared
                /\ \A x \in declared :
                       WithName(Resolved(n), x) = WithName(Direct(Nearest(chain, x)), x)

C10_Witness ==
    /\ pc = "sorted"
    /\ templates["T1"].base_template = "T2"
    /\ templates["T2"].base_template = "T3"
    /\ AttrNames(Direct("T1")) = {"x"}
    /\ AttrNames(Direct("T2")) = {"y"}
    /\ AttrNames(Direct("T3")) = {"x"}
    /\ Len(Resolved("T1")) = 2

(***************************************************************************)
(* The Hierarchy tree                                                      *)
(***************************************************************************)
FullPath(node) == IF node.Parent = NA THEN node.Name ELSE node.Parent \o PathSep \o node.Name

Established(i, path) ==
    \E j \in 1..(i - 1) : rows[j].ObjectType = "Element" /\ FullPath(rows[j]) = path

\* C1: the parent path of every node of the output, except the root, is the
\* full path of an Element node that comes earlier in the output.
C1_ParentEstablishedEarlier ==
    \A i \in 1..Len(rows) : rows[i].Parent # NA => Established(i, rows[i].Parent)

NumLevelRows == Len(LevelRows(df))

AssetElements ==
    SelectSeq(SubSeq(rows, NumLevelRows + 1, Len(rows)), LAMBDA node : node.ObjectType = "Element")

NodeOf(row, node) ==
    /\ node.Name = get_asset_display_name(row.PID_Asset, row.AssetName)
    /\ \/ node.Parent = DefaultParentPath(row)
       \/ \E s \in 1..Len(dedup_df) :
             node.Parent = DefaultParentPath(row) \o PathSep
                 \o get_asset_display_name(dedup_df[s].PID_Asset, dedup_df[s].AssetName)

\* C2: the written output has exactly one asset Element node for every key
\* of the deduplicated table, matched to a template or not.
C2_OneElementPerAssetKey ==
    pc = "written" =>
        /\ Len(AssetElements) = Len(dedup_df)
        /\ \A k \in 1..Len(dedup_df) :
              Cardinality({i \in 1..Len(AssetElements) : NodeOf(dedup_df[k], AssetElements[i])}) = 1

\* C7: when a controller-class asset has a corresponding sensor, the parent
\* path of the controller's Element node is the full path of that sensor's
\* own Element node.
C7_ControllerUnderSensorNode ==
    [][(/\ pc = "assets"
        /\ ap <= Len(assets_to_process)
        /\ assets_to_process[ap].kind = "controller"
        /\ find_corresponding_sensor(assets_to_process[ap].row.PID_Asset, sensor_assets) # None)
       => LET sensor_row == DictGet(sensor_assets,
                  find_corresponding_sensor(assets_to_process[ap].row.PID_Asset, sensor_assets))
              sensor_path == DefaultParentPath(sensor_row) \o PathSep
                  \o get_asset_display_name(sensor_row.PID_Asset, sensor_row.AssetName)
              node == rows'[Len(rows) + 1]
          IN  /\ node.Parent = sensor_path
              /\ \E j \in 1..Len(rows) :
                    rows[j].ObjectType = "Element" /\ FullPath(rows[j]) = node.Parent]_vars


\* The asset an Element node was made for: its display name without the
\* " - description" that add_row joins to it.
AssetOfNode(node) ==
    IF node.Description # <<>>
    THEN SubSeq(node.Name, 1, Len(node.Name) - Len(node.Description) - 3)
    ELSE node.Name

LinkedSystemName(id) ==
    IF id \in DOMAIN scada_asset_mapping THEN scada_asset_mapping[id] ELSE <<>>

\* C11: an Element node with a template is immediately followed by exactly
\* one Attribute node, whose parent path is the element's full path, whose
\* value is the asset's linked system name and whose template is empty; no
\* Attribute node lies under an Element node without a template.
C11_AttributeChildOfTemplatedElement ==
    \A i \in 1..Len(rows) :
        rows[i].ObjectType = "Element" =>
            IF rows[i].Template # ""
            THEN /\ i < Len(rows)
                 /\ rows[i + 1].ObjectType = "Attribute"
                 /\ rows[i + 1].Parent = FullPath(rows[i])
                 /\ rows[i + 1].Value = LinkedSystemName(AssetOfNode(rows[i]))
                 /\ rows[i + 1].Template = ""
                 /\ i + 2 <= Len(rows) => rows[i + 2].ObjectType = "Element"
            ELSE \A j \in 1..Len(rows) :
                     rows[j].ObjectType = "Attribute" => rows[j].Parent # FullPath(rows[i])

C11_Witness ==
    /\ pc = "written"
    /\ \E i \in 1..(Len(rows) - 1) :
          /\ rows[i].Template # ""
          /\ rows[i].Description # <<>>
          /\ rows[i + 1].ObjectType = "Attribute"
          /\ rows[i + 1].Value # <<>>
    /\ \E i \in 1..(Len(rows) - 1) :
          /\ rows[i].Template # ""
          /\ rows[i + 1].ObjectType = "Attribute"
          /\ rows[i + 1].Value = <<>>

\* C12: no two nodes of the output have the same parent path and the same
\* name.
C12_NoDuplicateNode ==
    \A i, j \in 1..Len(rows) :
        (rows[i].Parent = rows[j].Parent /\ rows[i].Name = rows[j].Name) => i = j

DeepestLevelPath(row) ==
    IF IsBlankLevel(row.Level2) THEN Level1Name
    ELSE IF IsBlankLevel(row.Level3) THEN Level1Name \o PathSep \o row.Level2
    ELSE Level1Name \o PathSep \o row.Level2 \o PathSep \o row.Level3

\* C13: the Element node of an asset that is not re-parented under a sensor
\* has the parent path root\Level2\Level3 when both levels are non-blank,
\* root\Level2 when Level 3 is blank, and root when Level 2 is blank.
C13_ParentedAtDeepestLevel ==
    [][(/\ pc = "assets"
        /\ ap <= Len(assets_to_process)
        /\ ~(/\ assets_to_process[ap].kind = "controller"
             /\ find_corresponding_sensor(assets_to_process[ap].row.PID_Asset,
                                          sensor_assets) # None))
       => rows'[Len(rows) + 1].Parent = DeepestLevelPath(assets_to_process[ap].row)]_vars

(***************************************************************************)
(* Template discovery                                                      *)
(***************************************************************************)
\* What the tag table says of an asset type: the rows that carry one of its
\* assets and take part in discovery, and for each of its assets the set of
\* its attributes (attribute names compared in lower case).
DiscoveryRows(asset_type) ==
    {i \in 1..Len(tag_df) :
        /\ TakesPart(tag_df[i])
        /\ tag_df[i].AssetType = asset_type
        /\ tag_df[i].PID_Asset # NaN}

AttributeSetsOf(asset_type) ==
    LET taking == DiscoveryRows(asset_type)
    IN  [asset \in {tag_df[i].PID_Asset : i \in taking} |->
            {LowerText(tag_df[i].Attribute) : i \in {k \in taking : tag_df[k].PID_Asset = asset}}]

AllAttributes == {LowerText(tag_df[i].Attribute) : i \in 1..Len(tag_df)}

\* The number of the assets that have the attribute.
Having(sets, attr) == Cardinality({asset \in DOMAIN sets : attr \in sets[asset]})

\* C14: for every asset type that has a core template, an attribute is in
\* the core exactly when every asset of the type has it.
C14_CoreIsIntersection ==
    \A t \in DOMAIN core_templates :
        LET sets == AttributeSetsOf(t)
        IN  \A attr \in AllAttributes \cup core_templates[t] :
                attr \in core_templates[t] <=> \A asset \in DOMAIN sets : attr \in sets[asset]

C14_Witness ==
    /\ pc = "compared"
    /\ "Motor" \in DOMAIN core_templates
    /\ core_templates["Motor"] = {<<"a">>}
    /\ Cardinality(DOMAIN AttributeSetsOf("Motor")) > 3
    /\ "Valve" \in DOMAIN core_templates
    /\ core_templates["Valve"] = {<<"b">>, <<"c">>}
    /\ Having(AttributeSetsOf("Valve"), <<"d">>) = 1

RankedAttributes(asset_type) ==
    {coverage[asset_type][i].attr : i \in 1..Len(coverage[asset_type])}

C16_RankedByCoverageThenName ==
    \A t \in DOMAIN coverage :
        \A i, j \in 1..Len(coverage[t]) :
            i < j =>
                \/ coverage[t][i].count > coverage[t][j].count
                \/ /\ coverage[t][i].count = coverage[t][j].count
                   /\ TextLess(coverage[t][i].attr, coverage[t][j].attr)

\* The attributes that more than 70 percent of the type's assets have.
CommonSet(asset_type) ==
    LET sets == AttributeSetsOf(asset_type)
    IN  {attr \in AllAttributes : Having(sets, attr) * 100 > 70 * Cardinality(DOMAIN sets)}

\* C17: two asset types that have ranked lists are reported as similar
\* exactly when both their common sets are non-empty and the shared
\* attributes are more than 70 percent of the attributes of either; the
\* similarity is only ever computed for non-empty sets, so that its divisor
\* is not zero.
C17_SimilarIffJaccardAboveThreshold ==
    pc = "compared" =>
        LET common == [t \in DOMAIN coverage |-> CommonSet(t)]
        IN  /\ \A t \in DOMAIN filtered_attr_sets : filtered_attr_sets[t] # {}
            /\ \A p \in similar : p \subseteq DOMAIN coverage /\ Cardinality(p) = 2
            /\ \A t1, t2 \in DOMAIN coverage :
                  t1 # t2 =>
                      ({t1, t2} \in similar
                          <=> /\ common[t1] # {}
                              /\ common[t2] # {}
                              /\ Cardinality(common[t1] \cap common[t2]) * 100
                                     > 70 * Cardinality(common[t1] \cup common[t2]))

C17_Witness ==
    /\ pc = "compared"
    /\ {"Motor", "Valve"} \in similar
    /\ CommonSet("Motor") # CommonSet("Valve")
    /\ Cardinality(CommonSet("Motor") \cap CommonSet("Valve")) = 3

(***************************************************************************)
(* Decomposition: short identifiers, middle tokens                         *)
(***************************************************************************)
\* C18: an identifier shorter than the prefix is parsed, without error, to
\* the pair of two empty strings.
C18_ShortIdentifierGivesEmptyPair ==
    Len(name) < PrefixLength =>
        \/ pc = "parse" /\ ENABLED ParseShort
        \/ pc = "parsed" /\ parsed = [asset |-> <<>>, attribute |-> <<>>]

C18_Witness == pc = "parsed" /\ Len(name) = PrefixLength - 1 /\ name[1] = "P"

DecimalDigits == {"0", "1", "2", "3", "4", "5", "6", "7", "8", "9"}

\* The token without its leading separators is made of decimal digits only.
OnlyDigits(token) ==
    LET first == CHOOSE i \in 1..Len(token) : token[i] # Sep /\ \A k \in 1..(i - 1) : token[k] = Sep
    IN  \A i \in first..Len(token) : token[i] \in DecimalDigits

RECURSIVE Picked(_, _, _)
\* The tokens of toks at the positions in idx, from position k on, in order.
Picked(toks, idx, k) ==
    IF k > Len(toks) THEN <<>>
    ELSE (IF k \in idx THEN <<toks[k]>> ELSE <<>>) \o Picked(toks, idx, k + 1)

MiddlePositions == 2..(Len(tokens) - 1)

KeyOf(r) == <<AsStrippedText(r.Level2), AsStrippedText(r.Level3), AsStrippedText(r.PID_Asset)>>

\* The positions of the rows of the tag sheet that carry an asset.
AssetRowPositions == {i \in 1..Len(tls_df) : tls_df[i].PID_Asset # NaN}

FirstSeenPosition(key) ==
    CHOOSE i \in AssetRowPositions :
        /\ KeyOf(tls_df[i]) = key
        /\ \A k \in AssetRowPositions : KeyOf(tls_df[k]) = key => i <= k

\* C20: the deduplicated table has exactly one record for every key
\* (Level 2, Level 3, asset) of the input rows and no other record, and the
\* description of the record is that of the first input row with the key.
C20_OneRecordPerKeyFirstSeen ==
    pc = "deduplicated" =>
        /\ {KeyOf(dedup_df[i]) : i \in 1..Len(dedup_df)}
               = {KeyOf(tls_df[i]) : i \in AssetRowPositions}
        /\ \A i, j \in 1..Len(dedup_df) : KeyOf(dedup_df[i]) = KeyOf(dedup_df[j]) => i = j
        /\ \A i \in 1..Len(dedup_df) :
              dedup_df[i].AssetName
                  = AsStrippedText(tls_df[FirstSeenPosition(KeyOf(dedup_df[i]))].AssetName)

C20_Witness ==
    /\ pc = "deduplicated"
    /\ Len(tls_df) = 3
    /\ Len(dedup_df) = 2
    /\ KeyOf(tls_df[1]) = KeyOf(tls_df[3])
    /\ tls_df[1].PID_Asset # tls_df[3].PID_Asset
    /\ tls_df[1].AssetName # tls_df[3].AssetName
    /\ KeyLess(Normalised(tls_df)[2], Normalised(tls_df)[1])

\* C21: when the run is aborted over the columns of the tag sheet, the error
\* names the needed columns that a sheet of the workbook lacks, exactly and
\* at least one, and no output row exists.
C21_AbortNamesMissingColumns ==
    pc = "failed" =>
        /\ error.columns # <<>>
        /\ \E i \in DOMAIN tls_sheets : error.columns = Missing(tls_sheets[i].columns)
        /\ rows = <<>>

FitsAt(a) ==
    {k \in 1..Len(order) :
        /\ Required(order[k]) # {}
        /\ Required(order[k]) \subseteq asset_attributes[a]}

\* C23: when match has completed, an asset that has every required attribute
\* of some template with a non-empty required set is assigned the first such
\* template in the order the templates are tried, any other asset is left
\* unmapped, and no assigned template has an empty required set.
C23_FirstFittingTemplate ==
    pc = "matched" =>
        /\ \A a \in Assets :
              IF FitsAt(a) = {} THEN a \notin DOMAIN asset_template_mapping
              ELSE /\ a \in DOMAIN asset_template_mapping
                   /\ asset_template_mapping[a] =
                          order[CHOOSE k \in FitsAt(a) : \A l \in FitsAt(a) : k <= l]
        /\ \A a \in DOMAIN asset_template_mapping : Required(asset_template_mapping[a]) # {}

C23_Witness ==
    /\ pc = "matched"
    /\ FitsAt("P1") = {1, 2}
    /\ Required(order[1]) # Required(order[2])
    /\ asset_template_mapping["P1"] = order[1]
    /\ FitsAt("P2") = {}
    /\ "P2" \notin DOMAIN asset_template_mapping

\* The positions of a controller's id where putting 'T' for 'C' gives the id
\* of a sensor.
SensorPositions(controller_name) ==
    {i \in 1..Len(controller_name) :
        /\ controller_name[i] = "C"
        /\ Substituted(controller_name, i) \in DictKeys(sensor_assets)}

\* C24: the Element node of a controller is parented away from its own
\* level path exactly when putting 'T' for 'C' at one position of its id,
\* whatever the length of the id, gives the id of a sensor.
C24_ReparentedIffSomePositionGivesSensor ==
    [][(/\ pc = "assets"
        /\ ap <= Len(assets_to_process)
        /\ assets_to_process[ap].kind = "controller")
       => LET row == assets_to_process[ap].row
          IN  (rows'[Len(rows) + 1].Parent # DefaultParentPath(row))
                  <=> (SensorPositions(row.PID_Asset) # {})]_vars

C25_NoNameAppendedTwice ==
    [][(/\ pc = "resolve"
        /\ Len(stack) >= 2
        /\ Top.at = "return")
       => LET had == Len(stack[Len(stack) - 1].all_attrs)
              merged == stack'[Len(stack')].all_attrs
          IN  \A k \in (had + 1)..Len(merged) :
                  \A j \in 1..(k - 1) : merged[j].name # merged[k].name]_vars

\* C29: when every template is resolved, the names of the resolved list of a
\* template with a defined base include the names of the resolved list of
\* that base, whether or not the bases form a cycle.
C29_ResolvedIncludesBaseNames ==
    pc = "sorted" =>
        \A n \in DOMAIN templates :
            HasBase(templates, n) =>
                AttrNames(templates[templates[n].base_template].all_attributes)
                    \subseteq AttrNames(templates[n].all_attributes)

C29_Witness ==
    /\ pc = "sorted"
    /\ templates["T1"].base_template = "T2"
    /\ templates["T2"].base_template = "T1"
    /\ AttrNames(templates["T1"].direct_attributes) = {"x"}
    /\ AttrNames(templates["T2"].direct_attributes) = {"y"}
    /\ AttrNames(templates["T2"].all_attributes) = {"x", "y"}
    /\ templates["T3"].base_template = "T1"
    /\ Len(templates["T3"].direct_attributes) = 1

\* The asset types of the rows that take part in discovery, and those of
\* them with more than 2 distinct assets.
DiscoveryTypes == {tag_df[i].AssetType : i \in {k \in 1..Len(tag_df) : TakesPart(tag_df[k])}}

PopulatedTypes == {t \in DiscoveryTypes : Cardinality(DOMAIN AttributeSetsOf(t)) > 2}

\* C26: a core template and a ranked list are made for the asset types with
\* more than 2 distinct assets and for no other type; every core template is
\* the intersection of at least one attribute set.
C26_OnlyPopulatedTypesGetTemplates ==
    pc \notin {"discover", "filtered"} =>
        LET populated == PopulatedTypes
        IN  /\ DOMAIN core_templates \subseteq populated
            /\ DOMAIN coverage \subseteq populated
            /\ pc \in {"coverage", "sets", "compared"} => DOMAIN core_templates = populated
            /\ pc \in {"sets", "compared"} => DOMAIN coverage = populated
            /\ \A t \in DOMAIN core_templates : t \in DiscoveryTypes

C26_Witness ==
    /\ pc = "compared"
    /\ Cardinality(DOMAIN AttributeSetsOf("Motor")) = 2
    /\ Cardinality(DOMAIN AttributeSetsOf("Filter")) = 0
    /\ "Filter" \in DiscoveryTypes
    /\ DOMAIN core_templates = {"Valve"}
    /\ DOMAIN coverage = {"Valve"}

\* C30: once the ranked lists are made, every attribute of the core template
\* of an asset type is in the ranked list of that type.
C30_CoreWithinCommon ==
    pc \in {"sets", "compared"} =>
        \A t \in DOMAIN core_templates : core_templates[t] \subseteq RankedAttributes(t)

C30_Witness ==
    /\ pc = "compared"
    /\ "Motor" \in DOMAIN core_templates
    /\ core_templates["Motor"] = {<<"b">>}
    /\ RankedAttributes("Motor") = {<<"a">>, <<"b">>}
    /\ core_templates["Valve"] # {}

\* C28: in every exported template specification the number of assets that
\* have all of the template's attributes is at most the type's total asset
\* count, and the coverage percentage (in tenths) is between 0 and 100.
C28_CoverageWithinTotal ==
    \A i \in 1..Len(templates_json) :
        /\ templates_json[i].asset_count_with_template <= templates_json[i].total_asset_count
        /\ templates_json[i].coverage_percentage \in 0..1000
====
